---- MODULE Spec2Model ----
(***************************************************************************)
(* Model of the media segmentation pipeline of video-audio-tool:          *)
(*   core/video_splitter.py     VideoSplitter.split_video                  *)
(*   core/audio_splitter.py     AudioSplitter.split_audio, its two paths   *)
(*   core/base_handler.py       the time parser, the tool verification      *)
(*   core/video_audio_merger.py merge_video_audio, replace_audio,           *)
(*                              remove_audio                                *)
(*   core/audio_extractor.py    extract_audio, extract_audio_segment        *)
(*   core/speech_to_text.py     SpeechToText and its model cache            *)
(*   core/unified_video_handler.py  the batch operations                    *)
(*   gui/worker_threads.py      VideoWorkerThread, AudioWorkerThread        *)
(*                                                                         *)
(* Times are fixed-point numbers: one unit of a numeric field is           *)
(* TicksPerSec ticks, so a parsed time in seconds is an integer number of  *)
(* ticks.  A time string is the sequence of its colon-separated fields;    *)
(* a field is numeric (float() accepts it) or not.                         *)
(* One behaviour of Spec is one call of one operation.  Every external     *)
(* process, library call and progress report of the call is appended to    *)
(* trace in the order the code performs it.  SpecSession, SpecConcurrent,  *)
(* SpecTasks and SpecBatch run the same steps for several calls: in        *)
(* sequence on one transcriber, from two threads, from GUI tasks, and from *)
(* the batch loops.  SpecWorker runs one operation inside a worker thread  *)
(* of the GUI, with cancel() called at any moment.  SpecTime applies the   *)
(* time formatters and validate_time_points on their own.                  *)
(***************************************************************************)
EXTENDS Integers, Sequences, FiniteSets, TLC

\* ------------------------------------------------------------------ bounds
\* longest list of raw split points handed to a segmenter
MaxPoints == 3
\* resolution of the fixed-point representation of float seconds
TicksPerSec == 2000
\* longest sequence of transcription calls made on one transcriber
MaxCalls == 3
\* number of transcription tasks started from the GUI in one process
MaxTasks == 2
\* longest job list handed to a batch operation
MaxJobs == 2

\* ------------------------------------------------------------ time strings
Num(n) == [ok |-> TRUE, v |-> n]
NaN == [ok |-> FALSE, v |-> 0]

\* "00:00:00", "00:00:00.0005", "00:00:30", "00:01:00", "00:01:30",
\* "10:00:00", "abc", "30", "00:00:-5"
TimeStrings ==
    { <<Num(0), Num(0), Num(0)>>,
      <<Num(0), Num(0), Num(1)>>,
      <<Num(0), Num(0), Num(30 * TicksPerSec)>>,
      <<Num(0), Num(TicksPerSec), Num(0)>>,
      <<Num(0), Num(TicksPerSec), Num(30 * TicksPerSec)>>,
      <<Num(10 * TicksPerSec), Num(0), Num(0)>>,
      <<NaN>>,
      <<Num(30 * TicksPerSec)>>,
      <<Num(0), Num(0), Num(0 - 5 * TicksPerSec)>> }

\* durations of the media file, in ticks: 90 s
Durations == {90 * TicksPerSec}

PointLists == UNION {[1..n -> TimeStrings] : n \in 0..MaxPoints}

\* ---------------------------------------------------------- list helpers
RECURSIVE Insert(_, _)
Insert(x, s) ==
    IF s = <<>> THEN <<x>>
    ELSE IF x <= Head(s) THEN <<x>> \o s
    ELSE <<Head(s)>> \o Insert(x, Tail(s))

\* sorted(xs) / xs.sort(): ascending, duplicates kept
RECURSIVE sorted(_)
sorted(s) == IF s = <<>> THEN <<>> ELSE Insert(Head(s), sorted(Tail(s)))

Elems(s) == {s[k] : k \in 1..Len(s)}

\* list(dict.fromkeys(xs)): first occurrence of every value, in order
RECURSIVE fromkeys(_)
fromkeys(s) ==
    IF s = <<>> THEN <<>>
    ELSE LET r == fromkeys(SubSeq(s, 1, Len(s) - 1))
             x == s[Len(s)]
         IN IF x \in Elems(r) THEN r ELSE Append(r, x)

\* list(zip(p[:-1], p[1:]))
zip(p) == [k \in 1..(Len(p) - 1) |-> <<p[k], p[k + 1]>>]

AllNumeric(parts) == \A k \in 1..Len(parts) : parts[k].ok

\* ------------------------------------------------------------ time model
\* BaseVideoHandler._time_str_to_seconds: 1, 2 or 3 fields, 0.0 on ValueError
VideoTimeStrToSeconds(parts) ==
    IF ~AllNumeric(parts) THEN 0
    ELSE IF Len(parts) = 3
         THEN parts[1].v * 3600 + parts[2].v * 60 + parts[3].v
    ELSE IF Len(parts) = 2 THEN parts[1].v * 60 + parts[2].v
    ELSE IF Len(parts) = 1 THEN parts[1].v
    ELSE 0

\* AudioSplitter._time_str_to_seconds: exactly 3 fields, 0.0 on any error
AudioTimeStrToSeconds(parts) ==
    IF Len(parts) # 3 THEN 0
    ELSE IF ~AllNumeric(parts) THEN 0
    ELSE parts[1].v * 3600 + parts[2].v * 60 + parts[3].v

\* floor(ticks * 1000 / TicksPerSec) for ticks >= 0, without large products
FloorMs(ticks) ==
    (ticks \div TicksPerSec) * 1000 + ((ticks % TicksPerSec) * 1000) \div TicksPerSec

\* int(seconds * 1000): truncation towards zero
IntMs(ticks) == IF ticks >= 0 THEN FloorMs(ticks) ELSE 0 - FloorMs(0 - ticks)

\* AudioSplitter._time_str_to_milliseconds
TimeStrToMilliseconds(parts) == IntMs(AudioTimeStrToSeconds(parts))

\* len(AudioSegment): the length of the loaded audio in milliseconds
LenMs(d) == FloorMs(d)

\* ---------------------------------------------------------------- planners
\* split_video: the parsed points s with 0 <= s <= total_duration, sorted
VideoTimeSeconds(points, total) ==
    LET secs == [k \in 1..Len(points) |-> VideoTimeStrToSeconds(points[k])]
        InRange(s) == 0 <= s /\ s <= total
    IN sorted(SelectSeq(secs, InRange))

\* mutant of VideoSplitPoints: the closing boundary is not appended
VideoSplitPointsNoEnd(time_seconds, total) == <<0>> \o time_seconds

VideoSplitPoints(time_seconds, total) == <<0>> \o time_seconds \o <<total>>

\* _split_audio_with_ffmpeg: the parsed points s with 0 < s < total_duration,
\* sorted, duplicates removed
AudioTimeSeconds(points, total) ==
    LET secs == [k \in 1..Len(points) |-> AudioTimeStrToSeconds(points[k])]
        InRange(s) == 0 < s /\ s < total
    IN fromkeys(sorted(SelectSeq(secs, InRange)))

AudioSplitPoints(time_seconds, total) == <<0>> \o time_seconds \o <<total>>

\* _split_audio_with_pydub: the same in milliseconds
PydubTimeMs(points, total_ms) ==
    LET ms == [k \in 1..Len(points) |-> TimeStrToMilliseconds(points[k])]
        InRange(m) == 0 < m /\ m < total_ms
    IN fromkeys(sorted(SelectSeq(ms, InRange)))

PydubSplitPoints(time_ms, total_ms) == <<0>> \o time_ms \o <<total_ms>>

\* the (start, start + duration) pairs the audio loops cut, one per index
AudioIntervals(p) ==
    [k \in 1..(Len(p) - 1) |-> <<p[k], p[k] + (p[k + 1] - p[k])>>]

\* progress after the segment with 0-based index idx
\* split_video: 30 + int((i + 1) / total_intervals * 60)
VideoProgress(idx, total_intervals) == 30 + ((idx + 1) * 60) \div total_intervals

\* both audio paths: 30 + (i + 1) * 60 // len(split_points)
AudioProgress(idx, n_points) == 30 + ((idx + 1) * 60) \div n_points

\* ------------------------------------------------------------------- state
VARIABLES
    op,               \* the public operation this call runs
    pc,               \* position of the call in its code
    time_points,      \* argument: the raw split points
    file_duration,    \* the real duration of the input file, in ticks
    has_callback,     \* argument: progress_callback is not None
    replace_audio,    \* argument of merge_video_audio
    pydub_installed,  \* module level: AudioSegment is not None
    total_duration,   \* local: probed duration (ticks, or ms under pydub)
    split_points,     \* local: the split plan
    intervals,        \* local: the interval list
    i,                \* local: 0-based loop index
    output_files,     \* local: part numbers of the files collected so far
    disk,             \* files in output_dir: part number and who wrote it
    trace,            \* everything the call did, in order
    ffmpeg_error,     \* why _split_audio_with_ffmpeg raised, "" if it did not
    result,           \* what the call returned, or that it raised
    whisper_model,    \* per SpeechToText object: size its model was loaded with
    current_model_size, \* per SpeechToText object: the recorded size key
    calls,            \* the frames of the _transcribe_audio calls
    stt_files,        \* files written by the transcription calls
    model_loads,      \* every WhisperModel(...) construction, in order
    signals,          \* Qt signals emitted by the audio worker threads
    jobs,             \* argument of a batch operation: the job list
    job,              \* batch loop: 0-based index of the job to run next
    results,          \* batch loop: the rows collected so far
    batch_callback,   \* argument of a batch operation: progress_callback given
    batch_progress,   \* values the batch operation passed to its callback
    batch_result,     \* what the batch operation returned
    round_trip,       \* a time value, its formatted string, the string parsed
    validation,       \* what validate_time_points returned
    worker            \* the worker thread running the operation, if any

vars == <<op, pc, time_points, file_duration, has_callback, replace_audio,
          pydub_installed,
          total_duration, split_points, intervals, i, output_files, disk,
          trace, ffmpeg_error, result,
          whisper_model, current_model_size, calls, stt_files, model_loads,
          signals, jobs, job, results, batch_callback, batch_progress,
          batch_result, round_trip, validation, worker>>

\* the state of a batch operation of UnifiedVideoHandler
batch == <<jobs, job, results, batch_callback, batch_progress, batch_result>>

\* the time utilities applied on their own, and the GUI thread of the call
side == <<round_trip, validation, worker>>

\* everything outside the frame of a single media operation: the
\* transcription side of the program, the batch loop, the utilities and
\* the worker thread
session == <<whisper_model, current_model_size, calls, stt_files, model_loads,
             signals, batch, side>>

Segmenters == {"split_video", "split_audio"}

\* the operations of VideoAudioMerger and AudioExtractor
Remuxers == {"merge_video_audio", "replace_audio", "remove_audio",
             "extract_audio", "extract_audio_segment"}

Operations == Segmenters \cup Remuxers

EntryPoint(o) ==
    CASE o = "split_video" -> "v_verify"
      [] o = "split_audio" -> "a_start"
      [] o = "merge_video_audio" -> "m_verify"
      [] o = "replace_audio" -> "r_verify"
      [] o = "remove_audio" -> "d_verify"
      [] o = "extract_audio" -> "e_verify"
      [] o = "extract_audio_segment" -> "s_verify"
      [] OTHER -> "t_call"

\* one record shape for every event of the trace
Ev(kind, a, b, out, rc, cmd) ==
    [kind |-> kind, a |-> a, b |-> b, out |-> out, rc |-> rc, cmd |-> cmd]

ProgressEv(v) == Ev("progress", v, 0, 0, "", "")

\* if progress_callback: progress_callback(v)
Report(t, v) == IF has_callback THEN Append(t, ProgressEv(v)) ELSE t

NoResult == [kind |-> "none", error |-> "", files |-> <<>>]
Failure(err) == [kind |-> "failure", error |-> err, files |-> <<>>]
Success(files) == [kind |-> "success", error |-> "", files |-> files]
Raised(err) == [kind |-> "raised", error |-> err, files |-> <<>>]

File(k, by) == [name |-> k, by |-> by]

\* a tool writing part k replaces whatever file of that name was there (-y)
Overwrite(d, k, by) == {f \in d : f.name # k} \cup {File(k, by)}

\* ------------------------------------------------- transcription: data
\* the public operations of SpeechToText
SpeechOperations == {"speech_to_text", "speech_to_subtitle"}

\* Whisper model sizes a caller can request
ModelSizes == {"tiny", "base"}

\* subtitle_format arguments: the three documented ones, two spellings in
\* another letter case, one unknown format
SubtitleFormats == {"srt", "vtt", "ass", "SRT", "Vtt", "txt"}

\* str.lower() on the subtitle_format arguments above
Lower(fmt) ==
    CASE fmt = "SRT" -> "srt"
      [] fmt = "Vtt" -> "vtt"
      [] OTHER -> fmt

\* extensions of the caller's output path ("" is a path without extension)
OutputExtensions == {".txt", ".srt", ""}

Path(base, ext) == [base |-> base, ext |-> ext]
NoPath == Path("", "")

\* _preprocess_audio: os.path.splitext(audio_path)[0] + '_temp.wav'
TempPath == Path("audio_temp", ".wav")

\* the result dictionary of _transcribe_audio
NoOutcome == [kind |-> "none", error |-> "", path |-> NoPath, content |-> ""]
Failed(err) == [kind |-> "failure", error |-> err, path |-> NoPath, content |-> ""]
Succeeded(path, content) ==
    [kind |-> "success", error |-> "", path |-> path, content |-> content]

\* the arguments of one call: model_size, output_format, subtitle_format,
\* whether the extension of audio_path is one Whisper reads, and the
\* extension of output_path
CallArgs(formats, subtitles, exts) ==
    [model_size : ModelSizes, output_format : formats,
     subtitle_format : subtitles, supported : BOOLEAN, ext : exts]

\* the arguments the two public operations pass to _transcribe_audio
OperationArgs(o) ==
    IF o = "speech_to_text"
    THEN CallArgs({"text"}, {"srt"}, OutputExtensions)
    ELSE CallArgs({"subtitle"}, SubtitleFormats, OutputExtensions)

\* the frame of a call of _transcribe_audio on object self at its first
\* statement: processed_audio_path = None, temp_file_to_delete = None
Call(id, self, a) ==
    [id |-> id, self |-> self, pc |-> "t_start",
     model_size |-> a.model_size, output_format |-> a.output_format,
     subtitle_format |-> a.subtitle_format, supported |-> a.supported,
     output_path |-> Path("out", a.ext),
     temp_file_to_delete |-> FALSE,
     model_used |-> "none", key_used |-> "none",
     progress |-> <<>>, result |-> NoOutcome]

\* SpeechToText.__init__: whisper_model = None, current_model_size = None
NoModel == "none"

NoBatchResult ==
    [kind |-> "none", total |-> 0, successful |-> 0, failed |-> 0, rows |-> <<>>]

\* no batch operation runs
NoBatch ==
    /\ jobs = <<>>
    /\ job = 0
    /\ results = <<>>
    /\ batch_callback = FALSE
    /\ batch_progress = <<>>
    /\ batch_result = NoBatchResult

\* no round trip through a formatter has been made
NoRoundTrip == [seconds |-> 0, time_str |-> <<>>, again |-> 0]

\* validate_time_points has not returned
NoValidation ==
    [kind |-> "none", valid |-> FALSE, valid_points |-> <<>>,
     invalid_points |-> <<>>]

\* the call is made directly, not from a worker thread
NoWorker ==
    [thread |-> "none", task_type |-> "", pc |-> "none", is_cancelled |-> FALSE,
     cancel_at |-> 0, seen |-> 0, emitted |-> <<>>]

\* no utility is applied on its own and no worker thread exists
NoSide ==
    /\ round_trip = NoRoundTrip
    /\ validation = NoValidation
    /\ worker = NoWorker

\* no transcriber exists and nothing of the transcription side has happened
NoSession ==
    /\ whisper_model = <<>>
    /\ current_model_size = <<>>
    /\ calls = <<>>
    /\ stt_files = {}
    /\ model_loads = <<>>
    /\ signals = <<>>

\* one freshly constructed transcriber, on which the frames cs run
OneTranscriber(cs) ==
    /\ whisper_model = <<NoModel>>
    /\ current_model_size = <<NoModel>>
    /\ calls = cs
    /\ stt_files = {}
    /\ model_loads = <<>>
    /\ signals = <<>>

Init ==
    /\ op \in Operations \cup SpeechOperations
    /\ pc = EntryPoint(op)
    /\ IF op \in SpeechOperations
       THEN \E a \in OperationArgs(op) : OneTranscriber(<<Call(1, 1, a)>>)
       ELSE NoSession
    /\ NoBatch
    /\ NoSide
    /\ time_points \in (IF op \in Segmenters THEN PointLists ELSE {<<>>})
    /\ file_duration \in Durations
    /\ has_callback \in BOOLEAN
    /\ replace_audio \in (IF op = "merge_video_audio" THEN BOOLEAN ELSE {TRUE})
    /\ pydub_installed \in BOOLEAN
    /\ total_duration = 0
    /\ split_points = <<>>
    /\ intervals = <<>>
    /\ i = 0
    /\ output_files = <<>>
    /\ disk = {}
    /\ trace = <<>>
    /\ ffmpeg_error = ""
    /\ result = NoResult

inputs == <<op, time_points, file_duration, has_callback, replace_audio,
            pydub_installed>>
plan == <<total_duration, split_points, intervals>>

\* return of the call: nothing runs afterwards
Return(r, t) ==
    /\ result' = r
    /\ trace' = t
    /\ pc' = "done"

\* ------------------------------------------------------------ split_video
\* BaseVideoHandler.test_ffmpeg_config: "missing" returns False before the
\* version query is run, the other outcomes are those of `ffmpeg -version`
VerifyOutcomes == {"ok", "missing", "nonzero", "timeout"}

VideoVerify ==
    /\ pc = "v_verify"
    /\ \E rc \in VerifyOutcomes :
         LET t == Append(trace, Ev("test_ffmpeg_config", 0, 0, 0, rc, "-version"))
         IN IF rc # "ok"
            THEN /\ Return(Failure("ffmpeg_config"), t)
                 /\ UNCHANGED <<inputs, session, plan, i, output_files, disk, ffmpeg_error>>
            ELSE /\ trace' = Report(t, 10)
                 /\ output_files' = <<>>
                 /\ pc' = "v_probe"
                 /\ UNCHANGED <<inputs, session, plan, i, disk, ffmpeg_error, result>>

VideoProbe ==
    /\ pc = "v_probe"
    /\ \E rc \in {"ok", "error"} :
         LET t == Append(trace, Ev("ffprobe", 0, 0, 0, rc, "format=duration"))
         IN IF rc # "ok"
            THEN /\ Return(Failure("no_duration"), t)
                 /\ UNCHANGED <<inputs, session, plan, i, output_files, disk, ffmpeg_error>>
            ELSE /\ total_duration' = file_duration
                 /\ trace' = Report(t, 20)
                 /\ pc' = "v_plan"
                 /\ UNCHANGED <<inputs, session, split_points, intervals, i, output_files,
                                disk, ffmpeg_error, result>>

VideoPlan ==
    /\ pc = "v_plan"
    /\ LET time_seconds == VideoTimeSeconds(time_points, total_duration)
           p == VideoSplitPoints(time_seconds, total_duration)
       IN /\ split_points' = p
          /\ intervals' = zip(p)
    /\ trace' = Report(trace, 30)
    /\ i' = 0
    /\ pc' = "v_loop"
    /\ UNCHANGED <<inputs, session, total_duration, output_files, disk, ffmpeg_error, result>>

\* the options of the transcoder command of split_video, in order; the
\* values of -ss and -to are start_time and duration
VideoCommand == <<"-ss", "-i", "-to", "-c:v libx264", "-c:a aac", "-y">>

\* mutant of VideoSegmentFailed: the failed segment is skipped with
\* `continue` and the loop goes on
VideoSegmentFailedContinue(rc, t) ==
    /\ trace' = t
    /\ i' = i + 1
    /\ UNCHANGED <<inputs, session, plan, pc, output_files, disk, ffmpeg_error, result>>

\* `if result.returncode != 0: return {...}`; subprocess.TimeoutExpired is
\* caught by the except clause of split_video.  Nothing is cleaned up, and a
\* failed transcoder may leave a partial file behind.
VideoSegmentFailed(rc, t) ==
    /\ Return(Failure(IF rc = "nonzero" THEN "segment_failed" ELSE "exception"), t)
    /\ \E partial \in BOOLEAN :
         disk' = IF partial THEN Overwrite(disk, i + 1, "ffmpeg") ELSE disk
    /\ UNCHANGED <<inputs, session, plan, i, output_files, ffmpeg_error>>

\* one iteration of `for i, (start_time, end_time) in enumerate(intervals)`
VideoSegment ==
    /\ pc = "v_loop"
    /\ i < Len(intervals)
    /\ LET start_time == intervals[i + 1][1]
           end_time == intervals[i + 1][2]
           duration == end_time - start_time
       IN IF start_time >= end_time
          THEN /\ i' = i + 1
               /\ UNCHANGED <<inputs, session, plan, pc, output_files, disk, trace,
                              ffmpeg_error, result>>
          ELSE \E rc \in {"ok", "nonzero", "timeout"} :
                 LET t == Append(trace, Ev("ffmpeg", start_time, duration, i + 1, rc,
                                           VideoCommand))
                 IN IF rc = "ok"
                    THEN /\ disk' = Overwrite(disk, i + 1, "ffmpeg")
                         /\ output_files' = Append(output_files, i + 1)
                         /\ trace' = Report(t, VideoProgress(i, Len(intervals)))
                         /\ i' = i + 1
                         /\ UNCHANGED <<inputs, session, plan, pc, ffmpeg_error, result>>
                    ELSE VideoSegmentFailed(rc, t)

\* mutant of VideoFinish: success is returned without the final report
VideoFinishSilent ==
    /\ pc = "v_loop"
    /\ i = Len(intervals)
    /\ Return(Success(output_files), trace)
    /\ UNCHANGED <<inputs, session, plan, i, output_files, disk, ffmpeg_error>>

VideoFinish ==
    /\ pc = "v_loop"
    /\ i = Len(intervals)
    /\ Return(Success(output_files), Report(trace, 100))
    /\ UNCHANGED <<inputs, session, plan, i, output_files, disk, ffmpeg_error>>

\* ------------------------------------------------------------ split_audio
\* `raise` inside _split_audio_with_ffmpeg: control passes to the except
\* clause of split_audio
Raise(err, t) ==
    /\ ffmpeg_error' = err
    /\ trace' = t
    /\ pc' = "a_except"

\* os.makedirs + write and remove of .write_test
DirOutcomes == {"ok", "makedirs_error", "write_error", "remove_error"}

\* the probe file (part number 0) stays behind only when its removal failed
AfterDirProbe(d, rc) == IF rc = "remove_error" THEN d \cup {File(0, "probe")} ELSE d

AudioStart ==
    /\ pc = "a_start"
    /\ \E exists \in BOOLEAN :
         LET t == Append(Report(trace, 10),
                         Ev("path_exists", 0, 0, 0,
                            IF exists THEN "ok" ELSE "missing", "ffmpeg.exe"))
         IN IF ~exists
            THEN /\ Raise("no_ffmpeg", t)
                 /\ UNCHANGED <<inputs, session, plan, i, output_files, disk, result>>
            ELSE /\ trace' = t
                 /\ pc' = "a_probe"
                 /\ UNCHANGED <<inputs, session, plan, i, output_files, disk, ffmpeg_error,
                                result>>

AudioProbe ==
    /\ pc = "a_probe"
    /\ \E rc \in {"ok", "error"} :
         LET t == Append(trace, Ev("ffprobe", 0, 0, 0, rc, "format=duration"))
         IN IF rc # "ok"
            THEN /\ Raise("no_duration", t)
                 /\ UNCHANGED <<inputs, session, plan, i, output_files, disk, result>>
            ELSE /\ total_duration' = file_duration
                 /\ trace' = Report(t, 20)
                 /\ pc' = "a_plan"
                 /\ UNCHANGED <<inputs, session, split_points, intervals, i, output_files,
                                disk, ffmpeg_error, result>>

AudioPlan ==
    /\ pc = "a_plan"
    /\ LET time_seconds == AudioTimeSeconds(time_points, total_duration)
       IN IF time_seconds = <<>>
          THEN /\ Raise("no_valid_points", trace)
               /\ UNCHANGED <<inputs, session, plan, i, output_files, disk, result>>
          ELSE /\ split_points' = AudioSplitPoints(time_seconds, total_duration)
               /\ trace' = Report(trace, 30)
               /\ pc' = "a_dir"
               /\ UNCHANGED <<inputs, session, total_duration, intervals, i, output_files,
                              disk, ffmpeg_error, result>>

AudioDir ==
    /\ pc = "a_dir"
    /\ \E rc \in DirOutcomes :
         LET t == Append(trace, Ev("dir_probe", 0, 0, 0, rc, ".write_test"))
         IN /\ disk' = AfterDirProbe(disk, rc)
            /\ IF rc # "ok"
               THEN /\ Raise("output_dir", t)
                    /\ UNCHANGED <<inputs, session, plan, i, output_files, result>>
               ELSE /\ trace' = t
                    /\ output_files' = <<>>
                    /\ i' = 0
                    /\ pc' = "a_loop"
                    /\ UNCHANGED <<inputs, session, plan, ffmpeg_error, result>>

\* the options of the stream-copy command of _split_audio_with_ffmpeg, in
\* order; the values of -ss and -t are start_time and duration
AudioCommand ==
    <<"-i", "-ss", "-t", "-c copy", "-avoid_negative_ts make_zero", "-y">>

\* mutant of AudioSegmentFailed: only the failed segment is redone with
\* pydub and the stream-copy loop goes on
AudioSegmentRetried(t) ==
    /\ trace' = Append(t, Ev("export", split_points[i + 1],
                             split_points[i + 2] - split_points[i + 1], i + 1,
                             "ok", "audio[start_ms:end_ms]"))
    /\ disk' = Overwrite(disk, i + 1, "pydub")
    /\ output_files' = Append(output_files, i + 1)
    /\ i' = i + 1
    /\ UNCHANGED <<inputs, session, plan, pc, ffmpeg_error, result>>

\* `else: raise Exception(...)` after a stream copy that exited non-zero,
\* or an exception of subprocess.run itself
AudioSegmentFailed(t) ==
    /\ Raise("ffmpeg_failed", t)
    /\ \E partial \in BOOLEAN :
         disk' = IF partial THEN Overwrite(disk, i + 1, "ffmpeg") ELSE disk
    /\ UNCHANGED <<inputs, session, plan, i, output_files, result>>

\* one iteration of `for i in range(len(split_points) - 1)`, stream copy
AudioSegment ==
    /\ pc = "a_loop"
    /\ i < Len(split_points) - 1
    /\ LET start_time == split_points[i + 1]
           duration == split_points[i + 2] - start_time
       IN \E rc \in {"ok", "nonzero", "error"} :
            LET t == Append(trace, Ev("ffmpeg", start_time, duration, i + 1, rc,
                                      AudioCommand))
            IN IF rc = "ok"
               THEN /\ disk' = Overwrite(disk, i + 1, "ffmpeg")
                    /\ output_files' = Append(output_files, i + 1)
                    /\ trace' = Report(t, AudioProgress(i, Len(split_points)))
                    /\ i' = i + 1
                    /\ UNCHANGED <<inputs, session, plan, pc, ffmpeg_error, result>>
               ELSE AudioSegmentFailed(t)

AudioFinish ==
    /\ pc = "a_loop"
    /\ i = Len(split_points) - 1
    /\ Return(Success(output_files), Report(trace, 100))
    /\ UNCHANGED <<inputs, session, plan, i, output_files, disk, ffmpeg_error>>

\* the except clause of split_audio calls _split_audio_with_pydub, whose
\* first statement raises when pydub is not installed; the locals of the
\* abandoned frame are gone
SplitAudioFallback ==
    /\ pc = "a_except"
    /\ total_duration' = 0
    /\ split_points' = <<>>
    /\ i' = 0
    /\ output_files' = <<>>
    /\ IF ~pydub_installed
       THEN Return(Raised("pydub_missing"), trace)
       ELSE /\ trace' = Report(trace, 10)
            /\ pc' = "p_load"
            /\ UNCHANGED result
    /\ UNCHANGED <<inputs, session, intervals, disk, ffmpeg_error>>

PydubLoad ==
    /\ pc = "p_load"
    /\ \E rc \in {"ok", "error"} :
         LET t == Append(trace, Ev("from_file", 0, 0, 0, rc, "AudioSegment"))
         IN IF rc # "ok"
            THEN /\ Return(Failure("load_failed"), t)
                 /\ UNCHANGED <<inputs, session, plan, i, output_files, disk, ffmpeg_error>>
            ELSE /\ total_duration' = LenMs(file_duration)
                 /\ trace' = Report(t, 20)
                 /\ pc' = "p_plan"
                 /\ UNCHANGED <<inputs, session, split_points, intervals, i, output_files,
                                disk, ffmpeg_error, result>>

PydubPlan ==
    /\ pc = "p_plan"
    /\ LET time_ms == PydubTimeMs(time_points, total_duration)
       IN IF time_ms = <<>>
          THEN /\ Return(Failure("no_valid_points"), trace)
               /\ UNCHANGED <<inputs, session, plan, i, output_files, disk, ffmpeg_error>>
          ELSE /\ split_points' = PydubSplitPoints(time_ms, total_duration)
               /\ trace' = Report(trace, 30)
               /\ pc' = "p_dir"
               /\ UNCHANGED <<inputs, session, total_duration, intervals, i, output_files,
                              disk, ffmpeg_error, result>>

PydubDir ==
    /\ pc = "p_dir"
    /\ \E rc \in DirOutcomes :
         LET t == Append(trace, Ev("dir_probe", 0, 0, 0, rc, ".write_test"))
         IN /\ disk' = AfterDirProbe(disk, rc)
            /\ IF rc # "ok"
               THEN /\ Return(Failure("output_dir"), t)
                    /\ UNCHANGED <<inputs, session, plan, i, output_files, ffmpeg_error>>
               ELSE /\ trace' = t
                    /\ output_files' = <<>>
                    /\ i' = 0
                    /\ pc' = "p_loop"
                    /\ UNCHANGED <<inputs, session, plan, ffmpeg_error, result>>

\* one iteration of the pydub loop: slice audio[start_ms:end_ms] and export
PydubSegment ==
    /\ pc = "p_loop"
    /\ i < Len(split_points) - 1
    /\ LET start_ms == split_points[i + 1]
           end_ms == split_points[i + 2]
       IN \E rc \in {"ok", "error"} :
            LET t == Append(trace, Ev("export", start_ms, end_ms - start_ms, i + 1,
                                      rc, "audio[start_ms:end_ms]"))
            IN IF rc = "ok"
               THEN /\ disk' = Overwrite(disk, i + 1, "pydub")
                    /\ output_files' = Append(output_files, i + 1)
                    /\ trace' = Report(t, AudioProgress(i, Len(split_points)))
                    /\ i' = i + 1
                    /\ UNCHANGED <<inputs, session, plan, pc, ffmpeg_error, result>>
               ELSE /\ Return(Failure("export_failed"), t)
                    /\ \E partial \in BOOLEAN :
                         disk' = IF partial THEN Overwrite(disk, i + 1, "pydub")
                                 ELSE disk
                    /\ UNCHANGED <<inputs, session, plan, i, output_files, ffmpeg_error>>

PydubFinish ==
    /\ pc = "p_loop"
    /\ i = Len(split_points) - 1
    /\ Return(Success(output_files), Report(trace, 100))
    /\ UNCHANGED <<inputs, session, plan, i, output_files, disk, ffmpeg_error>>

\* ------------------------------------------- VideoAudioMerger, AudioExtractor
RECURSIVE ReportAll(_, _)
ReportAll(t, vs) ==
    IF vs = <<>> THEN t ELSE ReportAll(Report(t, Head(vs)), Tail(vs))

locals == <<plan, i, output_files, ffmpeg_error>>

\* the first statements of every operation of these classes:
\* `if not self.test_ffmpeg_config(): return {...}`, then progress 10
VerifyThen(next) ==
    \E rc \in VerifyOutcomes :
      LET t == Append(trace, Ev("test_ffmpeg_config", 0, 0, 0, rc, "-version"))
      IN IF rc # "ok"
         THEN /\ Return(Failure("ffmpeg_config"), t)
              /\ UNCHANGED <<inputs, session, locals, disk>>
         ELSE /\ trace' = Report(t, 10)
              /\ pc' = next
              /\ UNCHANGED <<inputs, session, locals, disk, result>>

\* the single output file of these operations is part number 1; a writer
\* that fails may or may not leave a partial file behind
OutputsAfter(d, rc, by) ==
    IF rc = "ok" THEN {Overwrite(d, 1, by)}
    ELSE IF rc \in {"write_error", "nonzero", "timeout"}
    THEN {d, Overwrite(d, 1, by)}
    ELSE {d}

MergeVerify == pc = "m_verify" /\ VerifyThen("m_inputs")

\* existence of both inputs, progress 20, creation of the output directory
MergeInputs ==
    /\ pc = "m_inputs"
    /\ \E rc \in {"ok", "no_video", "no_audio", "makedirs_error"} :
         LET t == Append(trace, Ev("path_exists", 0, 0, 0, rc, "inputs"))
         IN CASE rc = "no_video" -> Return(Failure("video_missing"), t)
              [] rc = "no_audio" -> Return(Failure("audio_missing"), t)
              [] rc = "makedirs_error" ->
                   Return(Failure("merge_failed:exception"),
                          Append(Report(t, 20), Ev("makedirs", 0, 0, 0, rc, "")))
              [] rc = "ok" ->
                   /\ trace' = Report(t, 20)
                   /\ pc' = "m_primary"
                   /\ UNCHANGED result
    /\ UNCHANGED <<inputs, session, locals, disk>>

\* progress reported by the MoviePy path before it stops with outcome rc
MergePrimaryProgress(rc) ==
    CASE rc = "open_error" -> <<>>
      [] rc = "trim_error" -> <<40>>
      [] rc = "compose_error" -> <<40, 60>>
      [] rc = "write_error" -> <<40, 60, 80>>
      [] rc = "ok" -> <<40, 60, 80>>

\* mutant of MergePrimary: an exception of the MoviePy path is reported as
\* the failure of the operation, the transcoder is not tried
MergePrimaryNoFallback ==
    /\ pc = "m_primary"
    /\ \E rc \in {"ok", "open_error", "trim_error", "compose_error", "write_error"} :
         LET t == Append(ReportAll(trace, MergePrimaryProgress(rc)),
                         Ev("moviepy", 0, 0, 1, rc,
                            IF replace_audio THEN "set_audio" ELSE "composite"))
         IN /\ disk' \in OutputsAfter(disk, rc, "moviepy")
            /\ IF rc = "ok"
               THEN /\ trace' = t
                    /\ pc' = "m_finish"
                    /\ UNCHANGED result
               ELSE Return(Failure("merge_failed:exception"), t)
    /\ UNCHANGED <<inputs, session, locals>>

\* the MoviePy path; any exception hands over to _merge_with_ffmpeg
MergePrimary ==
    /\ pc = "m_primary"
    /\ \E rc \in {"ok", "open_error", "trim_error", "compose_error", "write_error"} :
         /\ trace' = Append(ReportAll(trace, MergePrimaryProgress(rc)),
                            Ev("moviepy", 0, 0, 1, rc,
                               IF replace_audio THEN "set_audio" ELSE "composite"))
         /\ disk' \in OutputsAfter(disk, rc, "moviepy")
         /\ pc' = IF rc = "ok" THEN "m_finish" ELSE "m_fallback"
    /\ UNCHANGED <<inputs, session, locals, result>>

\* _merge_with_ffmpeg and the `raise` of merge_video_audio when it failed
MergeFallback ==
    /\ pc = "m_fallback"
    /\ \E rc \in {"ok", "nonzero", "timeout", "error"} :
         LET t == Append(trace, Ev("ffmpeg", 0, 0, 1, rc,
                                   IF replace_audio
                                   THEN "-i -i copy aac map 0:v:0 1:a:0 -shortest -y"
                                   ELSE "-i -i copy amix map 0:v:0 [a] aac -shortest -y"))
         IN /\ disk' \in OutputsAfter(disk, rc, "ffmpeg")
            /\ IF rc = "ok"
               THEN /\ trace' = t
                    /\ pc' = "m_finish"
                    /\ UNCHANGED result
               ELSE Return(Failure(CASE rc = "nonzero" -> "merge_failed:ffmpeg_nonzero"
                                     [] rc = "timeout" -> "merge_failed:ffmpeg_timeout"
                                     [] rc = "error" -> "merge_failed:ffmpeg_error"), t)
    /\ UNCHANGED <<inputs, session, locals>>

MergeFinish ==
    /\ pc = "m_finish"
    /\ Return(Success(<<1>>), Report(trace, 100))
    /\ UNCHANGED <<inputs, session, locals, disk>>

ReplaceVerify == pc = "r_verify" /\ VerifyThen("r_inputs")

ReplaceInputs ==
    /\ pc = "r_inputs"
    /\ \E rc \in {"ok", "no_video", "no_audio", "makedirs_error"} :
         LET t == Append(trace, Ev("path_exists", 0, 0, 0, rc, "inputs"))
         IN CASE rc = "no_video" -> Return(Failure("video_missing"), t)
              [] rc = "no_audio" -> Return(Failure("audio_missing"), t)
              [] rc = "makedirs_error" ->
                   Return(Failure("replace_failed:exception"),
                          Append(Report(t, 30), Ev("makedirs", 0, 0, 0, rc, "")))
              [] rc = "ok" ->
                   /\ trace' = Report(t, 30)
                   /\ pc' = "r_run"
                   /\ UNCHANGED result
    /\ UNCHANGED <<inputs, session, locals, disk>>

\* mutant of ReplaceRun: subprocess.TimeoutExpired is reported with the
\* message of a non-zero exit
ReplaceRunTimeoutAsExit ==
    /\ pc = "r_run"
    /\ \E rc \in {"ok", "nonzero", "timeout", "error"} :
         LET t == Append(Report(trace, 50),
                         Ev("ffmpeg", 0, 0, 1, rc,
                            "-i -i copy aac map 0:v 1:a -shortest -y"))
         IN /\ disk' \in OutputsAfter(disk, rc, "ffmpeg")
            /\ CASE rc = "ok" -> Return(Success(<<1>>), Report(t, 100))
                 [] rc \in {"nonzero", "timeout"} ->
                      Return(Failure("replace_failed:stderr"), t)
                 [] rc = "error" -> Return(Failure("replace_failed:exception"), t)
    /\ UNCHANGED <<inputs, session, locals>>

\* progress 50, the transcoder under its 300 s timeout, progress 100
ReplaceRun ==
    /\ pc = "r_run"
    /\ \E rc \in {"ok", "nonzero", "timeout", "error"} :
         LET t == Append(Report(trace, 50),
                         Ev("ffmpeg", 0, 0, 1, rc,
                            "-i -i copy aac map 0:v 1:a -shortest -y"))
         IN /\ disk' \in OutputsAfter(disk, rc, "ffmpeg")
            /\ CASE rc = "ok" -> Return(Success(<<1>>), Report(t, 100))
                 [] rc = "nonzero" -> Return(Failure("replace_failed:stderr"), t)
                 [] rc = "timeout" -> Return(Failure("replace_timeout"), t)
                 [] rc = "error" -> Return(Failure("replace_failed:exception"), t)
    /\ UNCHANGED <<inputs, session, locals>>

RemoveVerify == pc = "d_verify" /\ VerifyThen("d_inputs")

RemoveInputs ==
    /\ pc = "d_inputs"
    /\ \E rc \in {"ok", "no_video", "makedirs_error"} :
         LET t == Append(trace, Ev("path_exists", 0, 0, 0, rc, "inputs"))
         IN CASE rc = "no_video" -> Return(Failure("video_missing"), t)
              [] rc = "makedirs_error" ->
                   Return(Failure("remove_failed:exception"),
                          Append(Report(t, 30), Ev("makedirs", 0, 0, 0, rc, "")))
              [] rc = "ok" ->
                   /\ trace' = Report(t, 30)
                   /\ pc' = "d_run"
                   /\ UNCHANGED result
    /\ UNCHANGED <<inputs, session, locals, disk>>

RemoveProgress(rc) ==
    CASE rc = "open_error" -> <<>>
      [] rc = "strip_error" -> <<50>>
      [] rc = "write_error" -> <<50, 70>>
      [] rc = "ok" -> <<50, 70>>

\* VideoFileClip, without_audio, write_videofile; no transcoder fallback
RemoveRun ==
    /\ pc = "d_run"
    /\ \E rc \in {"ok", "open_error", "strip_error", "write_error"} :
         LET t == Append(ReportAll(trace, RemoveProgress(rc)),
                         Ev("moviepy", 0, 0, 1, rc, "without_audio"))
         IN /\ disk' \in OutputsAfter(disk, rc, "moviepy")
            /\ IF rc = "ok"
               THEN Return(Success(<<1>>), Report(t, 100))
               ELSE Return(Failure("remove_failed:exception"), t)
    /\ UNCHANGED <<inputs, session, locals>>

ExtractOutcomes ==
    {"ok", "open_error", "no_audio_track", "makedirs_error", "write_error"}

ExtractProgress(rc) ==
    CASE rc = "open_error" -> <<>>
      [] rc = "no_audio_track" -> <<30>>
      [] rc = "bad_range" -> <<30>>
      [] rc \in {"makedirs_error", "write_error", "ok"} -> <<30, 50>>

ExtractFailure(rc, err) ==
    CASE rc = "no_audio_track" -> Failure("no_audio_track")
      [] rc = "bad_range" -> Failure("invalid_time_range")
      [] OTHER -> Failure(err)

ExtractVerify == pc = "e_verify" /\ VerifyThen("e_run")

\* VideoFileClip, the audio-track check, write_audiofile
ExtractRun ==
    /\ pc = "e_run"
    /\ \E rc \in ExtractOutcomes :
         LET t == Append(ReportAll(trace, ExtractProgress(rc)),
                         Ev("moviepy", 0, 0, 1, rc, "write_audiofile"))
         IN /\ disk' \in OutputsAfter(disk, rc, "moviepy")
            /\ IF rc = "ok"
               THEN Return(Success(<<1>>), Report(t, 100))
               ELSE Return(ExtractFailure(rc, "extract_failed:exception"), t)
    /\ UNCHANGED <<inputs, session, locals>>

ExtractSegmentVerify == pc = "s_verify" /\ VerifyThen("s_run")

\* as ExtractRun, with the check of the requested time range
ExtractSegmentRun ==
    /\ pc = "s_run"
    /\ \E rc \in ExtractOutcomes \cup {"bad_range"} :
         LET t == Append(ReportAll(trace, ExtractProgress(rc)),
                         Ev("moviepy", 0, 0, 1, rc, "subclip write_audiofile"))
         IN /\ disk' \in OutputsAfter(disk, rc, "moviepy")
            /\ IF rc = "ok"
               THEN Return(Success(<<1>>), Report(t, 100))
               ELSE Return(ExtractFailure(rc, "extract_segment_failed:exception"), t)
    /\ UNCHANGED <<inputs, session, locals>>

\* ------------------------------------------------------------ SpeechToText
\* what the transcription steps leave alone
media_state == <<inputs, locals, pc, disk, trace, result>>

\* if progress_callback: progress_callback(v)
Reported(c, v) == IF has_callback THEN [c EXCEPT !.progress = Append(@, v)] ELSE c

SetCall(t, c) == calls' = [calls EXCEPT ![t] = c]

\* `except Exception as e: return {'success': False, ...}`; the finally
\* clause runs before the call returns
Except(c, err) == [c EXCEPT !.result = Failed(err), !.pc = "t_finally"]

SttFile(path, content, by) == [path |-> path, content |-> content, by |-> by]

\* open(path, 'w') / export(path): replaces the file of that name
WriteFile(fs, path, content, by) ==
    {f \in fs : f.path # path} \cup {SttFile(path, content, by)}

\* progress 10, then the test
\* `self.whisper_model is None or self.current_model_size != model_size`
TranscribeStart(t) ==
    /\ calls[t].pc = "t_start"
    /\ LET c == Reported(calls[t], 10)
       IN IF \/ whisper_model[c.self] = NoModel
             \/ current_model_size[c.self] # c.model_size
          THEN SetCall(t, [Reported(c, 20) EXCEPT !.pc = "t_load"])
          ELSE SetCall(t, [Reported(c, 40) EXCEPT !.pc = "t_pre"])
    /\ UNCHANGED <<media_state, whisper_model, current_model_size, stt_files,
                   model_loads, signals, batch, side>>

\* mutant of LoadModel: the model is stored under the size of the previous
\* model when there is one
LoadModelKeepsOld(t) ==
    /\ calls[t].pc = "t_load"
    /\ LET c == calls[t]
       IN /\ model_loads' = Append(model_loads,
                                   [obj |-> c.self, size |-> c.model_size,
                                    by |-> c.id, rc |-> "ok"])
          /\ whisper_model' =
                 [whisper_model EXCEPT ![c.self] =
                      IF @ = NoModel THEN c.model_size ELSE @]
          /\ SetCall(t, [c EXCEPT !.pc = "t_setsize"])
    /\ UNCHANGED <<media_state, current_model_size, stt_files, signals, batch, side>>

\* os.makedirs of the model directory and
\* `self.whisper_model = WhisperModel(model_size, ...)`: the attribute is
\* assigned only when the constructor returned
LoadModel(t) ==
    /\ calls[t].pc = "t_load"
    /\ \E rc \in {"ok", "makedirs_error", "load_error"} :
         LET c == calls[t]
         IN /\ model_loads' =
                   IF rc = "makedirs_error" THEN model_loads
                   ELSE Append(model_loads,
                               [obj |-> c.self, size |-> c.model_size,
                                by |-> c.id, rc |-> rc])
            /\ IF rc = "ok"
               THEN /\ whisper_model' =
                           [whisper_model EXCEPT ![c.self] = c.model_size]
                    /\ SetCall(t, [c EXCEPT !.pc = "t_setsize"])
               ELSE /\ UNCHANGED whisper_model
                    /\ SetCall(t, Except(c, "transcribe_failed:exception"))
    /\ UNCHANGED <<media_state, current_model_size, stt_files, signals, batch, side>>

\* `self.current_model_size = model_size`, then progress 40
SetModelSize(t) ==
    /\ calls[t].pc = "t_setsize"
    /\ LET c == calls[t]
       IN /\ current_model_size' =
                 [current_model_size EXCEPT ![c.self] = c.model_size]
          /\ SetCall(t, [Reported(c, 40) EXCEPT !.pc = "t_pre"])
    /\ UNCHANGED <<media_state, whisper_model, stt_files, model_loads, signals, batch, side>>

\* what _preprocess_audio can do with the input: return it as it is, or
\* convert it with pydub; every exception is swallowed and the original path
\* returned, also when export had already created the temp file
PreprocessOutcomes(c) ==
    IF c.supported THEN {"as_is"}
    ELSE IF ~pydub_installed THEN {"no_pydub"}
    ELSE {"ok", "load_error", "export_error", "export_partial"}

\* _preprocess_audio, `if processed_audio_path != audio_path:
\* temp_file_to_delete = processed_audio_path`, progress 50
Preprocess(t) ==
    /\ calls[t].pc = "t_pre"
    /\ LET c == calls[t]
       IN \E rc \in PreprocessOutcomes(c) :
            /\ stt_files' =
                   IF rc = "ok" THEN WriteFile(stt_files, TempPath, "wav", c.id)
                   ELSE IF rc = "export_partial"
                   THEN WriteFile(stt_files, TempPath, "partial", c.id)
                   ELSE stt_files
            /\ SetCall(t, [Reported(c, 50) EXCEPT
                              !.temp_file_to_delete = (rc = "ok"),
                              !.pc = "t_infer"])
    /\ UNCHANGED <<media_state, whisper_model, current_model_size, model_loads,
                   signals, batch, side>>

\* `self.whisper_model.transcribe(...)`: the attribute is read when the
\* statement runs; progress 70
Transcribe(t) ==
    /\ calls[t].pc = "t_infer"
    /\ \E rc \in {"ok", "error"} :
         LET c == [calls[t] EXCEPT !.model_used = whisper_model[calls[t].self],
                                   !.key_used = current_model_size[calls[t].self]]
         IN IF rc = "ok"
            THEN SetCall(t, [Reported(c, 70) EXCEPT !.pc = "t_write"])
            ELSE SetCall(t, Except(c, "transcribe_failed:exception"))
    /\ UNCHANGED <<media_state, whisper_model, current_model_size, stt_files,
                   model_loads, signals, batch, side>>

\* _generate_subtitle: dispatch on subtitle_format.lower(); an unknown format
\* and an exception while the segments are decoded both give ""
GenerateSubtitle(fmt, rc) ==
    IF rc = "decode_error" THEN ""
    ELSE IF Lower(fmt) \in {"srt", "vtt", "ass"} THEN Lower(fmt)
    ELSE ""

\* `base_name, _ = os.path.splitext(output_path)` and the three comparisons
\* of subtitle_format with 'srt', 'vtt', 'ass'
SubtitlePath(path, fmt) ==
    CASE fmt = "srt" -> Path(path.base, ".srt")
      [] fmt = "vtt" -> Path(path.base, ".vtt")
      [] fmt = "ass" -> Path(path.base, ".ass")
      [] OTHER -> path

\* the branch of output_format: build the content, write the file, progress
\* 100, return the success dictionary
WriteOutput(t) ==
    /\ calls[t].pc = "t_write"
    /\ \E rc \in {"ok", "decode_error", "makedirs_error", "write_error"} :
         LET c == calls[t]
             text == c.output_format = "text"
             content == IF text THEN "text"
                        ELSE GenerateSubtitle(c.subtitle_format, rc)
             path == IF text THEN c.output_path
                     ELSE SubtitlePath(c.output_path, c.subtitle_format)
             written == rc = "ok" \/ (rc = "decode_error" /\ ~text)
         IN /\ stt_files' \in
                   IF written THEN {WriteFile(stt_files, path, content, c.id)}
                   ELSE IF rc = "write_error"
                   THEN {stt_files, WriteFile(stt_files, path, "partial", c.id)}
                   ELSE {stt_files}
            /\ SetCall(t, IF written
                          THEN [Reported(c, 100) EXCEPT
                                   !.result = Succeeded(path, content),
                                   !.pc = "t_finally"]
                          ELSE Except(c, "transcribe_failed:exception"))
    /\ UNCHANGED <<media_state, whisper_model, current_model_size, model_loads,
                   signals, batch, side>>

\* the finally clause: os.remove of the temp file when one was recorded and
\* exists; a failing os.remove is printed and swallowed
Cleanup(t) ==
    /\ calls[t].pc = "t_finally"
    /\ LET c == calls[t]
           exists == \E f \in stt_files : f.path = TempPath
       IN /\ IF c.temp_file_to_delete /\ exists
             THEN \E rc \in {"ok", "error"} :
                    stt_files' = IF rc = "ok"
                                 THEN {f \in stt_files : f.path # TempPath}
                                 ELSE stt_files
             ELSE UNCHANGED stt_files
          /\ SetCall(t, [c EXCEPT !.pc = "t_done"])
    /\ UNCHANGED <<media_state, whisper_model, current_model_size, model_loads,
                   signals, batch, side>>

Next ==
    \/ VideoVerify
    \/ VideoProbe
    \/ VideoPlan
    \/ VideoSegment
    \/ VideoFinish
    \/ AudioStart
    \/ AudioProbe
    \/ AudioPlan
    \/ AudioDir
    \/ AudioSegment
    \/ AudioFinish
    \/ SplitAudioFallback
    \/ PydubLoad
    \/ PydubPlan
    \/ PydubDir
    \/ PydubSegment
    \/ PydubFinish
    \/ MergeVerify
    \/ MergeInputs
    \/ MergePrimary
    \/ MergeFallback
    \/ MergeFinish
    \/ ReplaceVerify
    \/ ReplaceInputs
    \/ ReplaceRun
    \/ RemoveVerify
    \/ RemoveInputs
    \/ RemoveRun
    \/ ExtractVerify
    \/ ExtractRun
    \/ ExtractSegmentVerify
    \/ ExtractSegmentRun
    \/ \E t \in DOMAIN calls : TranscribeStart(t)
    \/ \E t \in DOMAIN calls : LoadModel(t)
    \/ \E t \in DOMAIN calls : SetModelSize(t)
    \/ \E t \in DOMAIN calls : Preprocess(t)
    \/ \E t \in DOMAIN calls : Transcribe(t)
    \/ \E t \in DOMAIN calls : WriteOutput(t)
    \/ \E t \in DOMAIN calls : Cleanup(t)

Spec == Init /\ [][Next]_vars

\* ------------------------------------------- other uses of the same code
\* the frame of a media operation when none is running
Idle(name) ==
    /\ op = name
    /\ pc = "t_call"
    /\ time_points = <<>>
    /\ file_duration \in Durations
    /\ has_callback \in BOOLEAN
    /\ replace_audio = TRUE
    /\ pydub_installed \in BOOLEAN
    /\ total_duration = 0
    /\ split_points = <<>>
    /\ intervals = <<>>
    /\ i = 0
    /\ output_files = <<>>
    /\ disk = {}
    /\ trace = <<>>
    /\ ffmpeg_error = ""
    /\ result = NoResult

\* the steps of _transcribe_audio, of any call in progress
NextTranscribe ==
    \/ \E t \in DOMAIN calls : TranscribeStart(t)
    \/ \E t \in DOMAIN calls : LoadModel(t)
    \/ \E t \in DOMAIN calls : SetModelSize(t)
    \/ \E t \in DOMAIN calls : Preprocess(t)
    \/ \E t \in DOMAIN calls : Transcribe(t)
    \/ \E t \in DOMAIN calls : WriteOutput(t)
    \/ \E t \in DOMAIN calls : Cleanup(t)

\* ---- a sequence of calls on one SpeechToText object
SessionArgs == CallArgs({"text", "subtitle"}, {"srt"}, {".txt"})

InitSession ==
    /\ Idle("session")
    /\ NoBatch
    /\ NoSide
    /\ \E a \in SessionArgs : OneTranscriber(<<Call(1, 1, a)>>)

\* the previous call has returned; speech_to_text or speech_to_subtitle is
\* called again on the same object
SessionNextCall ==
    /\ calls[1].pc = "t_done"
    /\ calls[1].id < MaxCalls
    /\ \E a \in SessionArgs : calls' = <<Call(calls[1].id + 1, 1, a)>>
    /\ UNCHANGED <<media_state, whisper_model, current_model_size, stt_files,
                   model_loads, signals, batch, side>>

NextSession == NextTranscribe \/ SessionNextCall

SpecSession == InitSession /\ [][NextSession]_vars

\* ---- two threads calling the same SpeechToText object at the same time
ConcurrentArgs == CallArgs({"text"}, {"srt"}, {".txt"})

InitConcurrent ==
    /\ Idle("concurrent")
    /\ NoBatch
    /\ NoSide
    /\ \E a1 \in ConcurrentArgs, a2 \in ConcurrentArgs :
         OneTranscriber(<<Call(1, 1, a1), Call(2, 1, a2)>>)

SpecConcurrent == InitConcurrent /\ [][NextTranscribe]_vars

\* ---- transcription tasks started from the GUI, one after the other
TaskArgs == CallArgs({"text"}, {"srt"}, {".txt"})

Signal(task, name) == [task |-> task, name |-> name]

InitTasks ==
    /\ Idle("tasks")
    /\ has_callback = TRUE
    /\ NoBatch
    /\ NoSide
    /\ NoSession

\* STTTab.start_transcription, AudioWorkerThread.run and the head of
\* _speech_to_text: status signal, `handler = AudioHandler()` (which builds
\* a new SpeechToText), then the call with progress_callback given
TaskStart ==
    /\ IF calls = <<>> THEN TRUE ELSE calls[1].pc = "t_emitted"
    /\ Len(whisper_model) < MaxTasks
    /\ \E a \in TaskArgs :
         LET n == Len(whisper_model) + 1
         IN /\ whisper_model' = Append(whisper_model, NoModel)
            /\ current_model_size' = Append(current_model_size, NoModel)
            /\ calls' = <<Call(n, n, a)>>
            /\ signals' = Append(signals, Signal(n, "status_updated"))
    /\ UNCHANGED <<media_state, stt_files, model_loads, batch, side>>

\* the tail of _speech_to_text: the signals for the returned dictionary
TaskEmit ==
    /\ calls # <<>>
    /\ calls[1].pc = "t_done"
    /\ signals' = signals \o
                  (IF calls[1].result.kind = "success"
                   THEN <<Signal(calls[1].id, "transcription_result"),
                          Signal(calls[1].id, "finished_successfully")>>
                   ELSE <<Signal(calls[1].id, "error_occurred")>>)
    /\ calls' = [calls EXCEPT ![1].pc = "t_emitted"]
    /\ UNCHANGED <<media_state, whisper_model, current_model_size, stt_files,
                   model_loads, batch, side>>

NextTasks == NextTranscribe \/ TaskStart \/ TaskEmit

SpecTasks == InitTasks /\ [][NextTasks]_vars

\* ---- the batch operations of UnifiedVideoHandler
BatchOperations == {"batch_split_videos", "batch_extract_audio"}

\* time_points of the jobs: none, "00:00:30", "abc"
JobPoints == {<<>>, << <<Num(0), Num(0), Num(30 * TicksPerSec)>> >>, << <<NaN>> >>}

\* a job's configuration; batch_extract_audio passes no time points
Configs(o) ==
    IF o = "batch_split_videos" THEN [time_points : JobPoints]
    ELSE [time_points : {<<>>}]

JobLists(o) == UNION {[1..n -> Configs(o)] : n \in 0..MaxJobs}

\* the per-job calls pass no progress_callback
InitBatch ==
    /\ op \in BatchOperations
    /\ pc = "b_loop"
    /\ time_points = <<>>
    /\ file_duration \in Durations
    /\ has_callback = FALSE
    /\ replace_audio = TRUE
    /\ pydub_installed = TRUE
    /\ total_duration = 0
    /\ split_points = <<>>
    /\ intervals = <<>>
    /\ i = 0
    /\ output_files = <<>>
    /\ disk = {}
    /\ trace = <<>>
    /\ ffmpeg_error = ""
    /\ result = NoResult
    /\ NoSession
    /\ jobs \in JobLists(op)
    /\ job = 0
    /\ results = <<>>
    /\ batch_callback \in BOOLEAN
    /\ batch_progress = <<>>
    /\ batch_result = NoBatchResult
    /\ NoSide

\* `for i, config in enumerate(...)`: the call of self.split_video or
\* self.extract_audio for the next job, in a fresh frame and output place
BatchStartJob ==
    /\ pc = "b_loop"
    /\ job < Len(jobs)
    /\ time_points' = jobs[job + 1].time_points
    /\ total_duration' = 0
    /\ split_points' = <<>>
    /\ intervals' = <<>>
    /\ i' = 0
    /\ output_files' = <<>>
    /\ disk' = {}
    /\ trace' = <<>>
    /\ ffmpeg_error' = ""
    /\ result' = NoResult
    /\ pc' = IF op = "batch_split_videos" THEN "v_verify" ELSE "e_verify"
    /\ UNCHANGED <<op, file_duration, has_callback, replace_audio,
                   pydub_installed, session>>

\* int((i + 1) / total_videos * 100)
BatchProgress(idx, total_videos) == ((idx + 1) * 100) \div total_videos

\* mutant of BatchCollect: the loop is left at the first failed job
BatchCollectBreak ==
    /\ op \in BatchOperations
    /\ pc = "done"
    /\ results' = Append(results, [video_path |-> job + 1, result |-> result])
    /\ batch_progress' = batch_progress
    /\ job' = IF result.kind = "success" THEN job + 1 ELSE Len(jobs)
    /\ pc' = "b_loop"
    /\ UNCHANGED <<inputs, locals, disk, trace, result, whisper_model,
                   current_model_size, calls, stt_files, model_loads, signals,
                   jobs, batch_callback, batch_result, side>>

\* the call returned: results.append({...}) and the progress report
BatchCollect ==
    /\ op \in BatchOperations
    /\ pc = "done"
    /\ results' = Append(results, [video_path |-> job + 1, result |-> result])
    /\ batch_progress' = IF batch_callback
                         THEN Append(batch_progress, BatchProgress(job, Len(jobs)))
                         ELSE batch_progress
    /\ job' = job + 1
    /\ pc' = "b_loop"
    /\ UNCHANGED <<inputs, locals, disk, trace, result, whisper_model,
                   current_model_size, calls, stt_files, model_loads, signals,
                   jobs, batch_callback, batch_result, side>>

\* the statistics after the loop and the returned dictionary
BatchFinish ==
    /\ pc = "b_loop"
    /\ job = Len(jobs)
    /\ LET total_videos == Len(jobs)
           successful == Cardinality({k \in 1..Len(results) :
                                         results[k].result.kind = "success"})
           failed == total_videos - successful
       IN batch_result' = [kind |-> IF failed = 0 THEN "success" ELSE "failure",
                           total |-> total_videos, successful |-> successful,
                           failed |-> failed, rows |-> results]
    /\ pc' = "b_done"
    /\ UNCHANGED <<inputs, locals, disk, trace, result, whisper_model,
                   current_model_size, calls, stt_files, model_loads, signals,
                   jobs, job, results, batch_callback, batch_progress, side>>

NextBatch ==
    \/ BatchStartJob
    \/ VideoVerify
    \/ VideoProbe
    \/ VideoPlan
    \/ VideoSegment
    \/ VideoFinish
    \/ ExtractVerify
    \/ ExtractRun
    \/ BatchCollect
    \/ BatchFinish

SpecBatch == InitBatch /\ [][NextBatch]_vars

\* ---- the time utilities applied on their own
\* the formatters and the validator, as a caller of the handlers uses them
TimeOperations ==
    {"_seconds_to_time_str", "_milliseconds_to_time_str", "validate_time_points"}

\* well-formed times HH:MM:SS, MM:SS and SS with minutes and seconds below
\* 60; the seconds fields are 0, 30, 30.5, 59 and 59.999
ValidTimeStrings ==
    LET SecondsFields ==
            {0, 30 * TicksPerSec, 30 * TicksPerSec + TicksPerSec \div 2,
             59 * TicksPerSec, 59 * TicksPerSec + (999 * TicksPerSec) \div 1000}
    IN {<<Num(h * TicksPerSec), Num(m * TicksPerSec), Num(s)>> :
           h \in {0, 1, 10}, m \in {0, 1, 59}, s \in SecondsFields}
       \cup {<<Num(m * TicksPerSec), Num(s)>> : m \in {0, 59}, s \in SecondsFields}
       \cup {<<Num(s)>> : s \in SecondsFields}

\* the strings of TimeStrings and "1:2:3:4"
RawTimeStrings ==
    TimeStrings \cup {<<Num(TicksPerSec), Num(2 * TicksPerSec),
                        Num(3 * TicksPerSec), Num(4 * TicksPerSec)>>}

\* BaseVideoHandler._seconds_to_time_str: HH:MM:SS.mmm; f"{secs:06.3f}"
\* prints the nearest whole number of milliseconds
SecondsToTimeStr(seconds) ==
    LET hours == seconds \div (3600 * TicksPerSec)
        minutes == (seconds % (3600 * TicksPerSec)) \div (60 * TicksPerSec)
        secs == seconds % (60 * TicksPerSec)
        ms == (2000 * secs + TicksPerSec) \div (2 * TicksPerSec)
    IN <<Num(hours * TicksPerSec), Num(minutes * TicksPerSec),
         Num((ms * TicksPerSec) \div 1000)>>

\* AudioSplitter._milliseconds_to_time_str: HH:MM:SS
MillisecondsToTimeStr(milliseconds) ==
    LET hours == milliseconds \div 3600000
        minutes == (milliseconds % 3600000) \div 60000
        seconds == (milliseconds % 60000) \div 1000
    IN <<Num(hours * TicksPerSec), Num(minutes * TicksPerSec),
         Num(seconds * TicksPerSec)>>

\* UnifiedVideoHandler.validate_time_points: the parser returns 0.0 for a
\* string it cannot read and raises nothing, so the except clause of the
\* loop is never entered for a list of strings
RECURSIVE ValidateTimePoints(_, _)
ValidateTimePoints(points, video_duration) ==
    IF points = <<>>
    THEN [kind |-> "returned", valid |-> TRUE, valid_points |-> <<>>,
          invalid_points |-> <<>>]
    ELSE LET r == ValidateTimePoints(SubSeq(points, 1, Len(points) - 1),
                                     video_duration)
             time_str == points[Len(points)]
             seconds == VideoTimeStrToSeconds(time_str)
         IN IF 0 <= seconds /\ seconds <= video_duration
            THEN [r EXCEPT !.valid_points = Append(@, time_str)]
            ELSE [r EXCEPT !.valid = FALSE,
                           !.invalid_points =
                               Append(@, [time |-> time_str,
                                          reason |-> "out_of_range"])]

InitTime ==
    /\ op \in TimeOperations
    /\ pc = IF op = "validate_time_points" THEN "p_call" ELSE "f_parse"
    /\ time_points \in (IF op = "validate_time_points"
                        THEN UNION {[1..n -> RawTimeStrings] : n \in 0..MaxPoints}
                        ELSE {<<s>> : s \in ValidTimeStrings})
    /\ file_duration \in Durations
    /\ has_callback = FALSE
    /\ replace_audio = TRUE
    /\ pydub_installed = TRUE
    /\ total_duration = 0
    /\ split_points = <<>>
    /\ intervals = <<>>
    /\ i = 0
    /\ output_files = <<>>
    /\ disk = {}
    /\ trace = <<>>
    /\ ffmpeg_error = ""
    /\ result = NoResult
    /\ NoSession
    /\ NoBatch
    /\ round_trip = NoRoundTrip
    /\ validation = NoValidation
    /\ worker = NoWorker

\* everything but the position and the results of the utilities
time_frame == <<inputs, locals, disk, trace, result, whisper_model,
                current_model_size, calls, stt_files, model_loads, signals,
                batch>>

\* the time string is parsed by the parser of the formatter's class
ParseTime ==
    /\ pc = "f_parse"
    /\ round_trip' =
         [round_trip EXCEPT !.seconds =
             IF op = "_seconds_to_time_str"
             THEN VideoTimeStrToSeconds(time_points[1])
             ELSE TimeStrToMilliseconds(time_points[1])]
    /\ pc' = "f_format"
    /\ UNCHANGED <<time_frame, validation, worker>>

FormatTime ==
    /\ pc = "f_format"
    /\ round_trip' =
         [round_trip EXCEPT !.time_str =
             IF op = "_seconds_to_time_str"
             THEN SecondsToTimeStr(round_trip.seconds)
             ELSE MillisecondsToTimeStr(round_trip.seconds)]
    /\ pc' = "f_again"
    /\ UNCHANGED <<time_frame, validation, worker>>

\* the formatted string is parsed again
ParseAgain ==
    /\ pc = "f_again"
    /\ round_trip' =
         [round_trip EXCEPT !.again =
             IF op = "_seconds_to_time_str"
             THEN VideoTimeStrToSeconds(round_trip.time_str)
             ELSE TimeStrToMilliseconds(round_trip.time_str)]
    /\ pc' = "f_done"
    /\ UNCHANGED <<time_frame, validation, worker>>

ValidateCall ==
    /\ pc = "p_call"
    /\ validation' = ValidateTimePoints(time_points, file_duration)
    /\ pc' = "p_done"
    /\ UNCHANGED <<time_frame, round_trip, worker>>

NextTime == ParseTime \/ FormatTime \/ ParseAgain \/ ValidateCall

SpecTime == InitTime /\ [][NextTime]_vars

\* ---- an operation run by a worker thread of the GUI
VideoTasks == {"split", "extract", "merge", "export"}
AudioTasks == {"stt", "split", "tts", "tts_test", "export"}

\* the handler method a task type runs; "" for tts, which uses no handler,
\* and for a task type run() does not know ("export")
TaskOperation(thread, task_type) ==
    IF thread = "VideoWorkerThread"
    THEN CASE task_type = "split" -> "split_video"
           [] task_type = "extract" -> "extract_audio"
           [] task_type = "merge" -> "merge_video_audio"
           [] OTHER -> ""
    ELSE CASE task_type = "stt" -> "speech_to_text"
           [] task_type = "split" -> "split_audio"
           [] OTHER -> ""

\* kwargs['time_points'] of a split task: no point, "00:00:30", and
\* "00:00:30" with "00:01:00"
TaskPointLists ==
    {<<>>,
     <<<<Num(0), Num(0), Num(30 * TicksPerSec)>>>>,
     <<<<Num(0), Num(0), Num(30 * TicksPerSec)>>, <<Num(0), Num(TicksPerSec), Num(0)>>>>}

\* __init__ of the thread: is_cancelled = False; start() has been called
InitWorker ==
    /\ \E thread \in {"VideoWorkerThread", "AudioWorkerThread"} :
         \E task_type \in (IF thread = "VideoWorkerThread"
                           THEN VideoTasks ELSE AudioTasks) :
            /\ worker = [NoWorker EXCEPT !.thread = thread,
                                         !.task_type = task_type, !.pc = "w_run"]
            /\ op = TaskOperation(thread, task_type)
    /\ pc = EntryPoint(op)
    /\ IF op = "speech_to_text"
       THEN \E a \in TaskArgs : OneTranscriber(<<Call(1, 1, a)>>)
       ELSE NoSession
    /\ NoBatch
    /\ round_trip = NoRoundTrip
    /\ validation = NoValidation
    /\ time_points \in (IF op \in Segmenters THEN TaskPointLists ELSE {<<>>})
    /\ file_duration \in Durations
    /\ has_callback = TRUE
    /\ replace_audio = TRUE
    /\ pydub_installed \in BOOLEAN
    /\ total_duration = 0
    /\ split_points = <<>>
    /\ intervals = <<>>
    /\ i = 0
    /\ output_files = <<>>
    /\ disk = {}
    /\ trace = <<>>
    /\ ffmpeg_error = ""
    /\ result = NoResult

Emit(w, name, value) ==
    [w EXCEPT !.emitted =
        Append(@, [name |-> name, value |-> value, cancelled |-> w.is_cancelled])]

\* the values the handler has passed to progress_callback so far
Callbacks ==
    IF op = "speech_to_text" THEN calls[1].progress
    ELSE LET IsReport(e) == e.kind = "progress"
             reports == SelectSeq(trace, IsReport)
         IN [k \in 1..Len(reports) |-> reports[k].a]

\* the handler is running and every callback it made has returned
InCall == worker.pc = "w_call" /\ worker.seen = Len(Callbacks)

worker_frame == <<media_state, whisper_model, current_model_size, calls,
                  stt_files, model_loads, signals, batch, round_trip, validation>>

\* run() up to the call of the handler method; an unknown task type emits
\* error_occurred at once
WorkerRun ==
    /\ worker.pc = "w_run"
    /\ worker' =
         IF worker.task_type \in {"tts", "tts_test"}
         THEN [worker EXCEPT !.pc = "w_tts"]
         ELSE IF op = ""
         THEN [Emit(worker, "error_occurred", 0) EXCEPT !.pc = "w_finished"]
         ELSE [Emit(worker, "status_updated", 0) EXCEPT !.pc = "w_call"]
    /\ UNCHANGED worker_frame

\* mutant of UpdateProgress: the signal is emitted without looking at
\* is_cancelled
UpdateProgressUnguarded ==
    /\ worker.pc = "w_call"
    /\ worker.seen < Len(Callbacks)
    /\ worker' = [Emit(worker, "progress_updated", Callbacks[worker.seen + 1])
                    EXCEPT !.seen = @ + 1]
    /\ UNCHANGED worker_frame

\* _update_progress, called by the handler through progress_callback
UpdateProgress ==
    /\ worker.pc = "w_call"
    /\ worker.seen < Len(Callbacks)
    /\ worker' =
         IF ~worker.is_cancelled
         THEN [Emit(worker, "progress_updated", Callbacks[worker.seen + 1])
                 EXCEPT !.seen = @ + 1]
         ELSE [worker EXCEPT !.seen = @ + 1]
    /\ UNCHANGED worker_frame

\* what the handler method returned, or that it raised
Returned ==
    IF op = "speech_to_text"
    THEN IF calls[1].pc = "t_done" THEN calls[1].result.kind ELSE "none"
    ELSE IF pc = "done" THEN result.kind ELSE "none"

\* the tail of _split_video, _extract_audio, _merge_video, _speech_to_text
\* and _split_audio, and the except clause of run() for a handler that raised
WorkerFinish ==
    /\ InCall
    /\ Returned # "none"
    /\ worker' =
         [(IF Returned = "success"
           THEN Emit(IF op = "speech_to_text"
                     THEN Emit(worker, "transcription_result", 0) ELSE worker,
                     "finished_successfully", 0)
           ELSE Emit(worker, "error_occurred", 0))
          EXCEPT !.pc = "w_finished"]
    /\ UNCHANGED worker_frame

\* _text_to_speech: the import of TTS fails with ImportError ("import_error")
\* or with another exception, which the except clause of run() reports;
\* TTS(...) or tts_to_file raises ("tts_error"); or the file is written
TextToSpeech ==
    /\ worker.pc = "w_tts"
    /\ \E rc \in {"import_error", "import_crash", "tts_error", "ok"} :
         worker' =
           [(IF rc \in {"import_error", "import_crash"}
             THEN Emit(worker, "error_occurred", 0)
             ELSE IF rc = "tts_error"
             THEN Emit(Emit(worker, "status_updated", 0), "error_occurred", 0)
             ELSE Emit(Emit(Emit(worker, "status_updated", 0), "status_updated", 0),
                       "finished_successfully", 0))
            EXCEPT !.pc = "w_finished"]
    /\ UNCHANGED worker_frame

\* cancel(), called from the GUI thread at any moment: is_cancelled = True;
\* quit() ends an event loop, which run() never enters
Cancel ==
    /\ ~worker.is_cancelled
    /\ worker' = [worker EXCEPT !.is_cancelled = TRUE, !.cancel_at = Len(trace)]
    /\ UNCHANGED worker_frame

NextWorker ==
    \/ WorkerRun
    \/ UpdateProgress
    \/ WorkerFinish
    \/ TextToSpeech
    \/ Cancel
    \/ InCall /\ VideoVerify
    \/ InCall /\ VideoProbe
    \/ InCall /\ VideoPlan
    \/ InCall /\ VideoSegment
    \/ InCall /\ VideoFinish
    \/ InCall /\ AudioStart
    \/ InCall /\ AudioProbe
    \/ InCall /\ AudioPlan
    \/ InCall /\ AudioDir
    \/ InCall /\ AudioSegment
    \/ InCall /\ AudioFinish
    \/ InCall /\ SplitAudioFallback
    \/ InCall /\ PydubLoad
    \/ InCall /\ PydubPlan
    \/ InCall /\ PydubDir
    \/ InCall /\ PydubSegment
    \/ InCall /\ PydubFinish
    \/ InCall /\ MergeVerify
    \/ InCall /\ MergeInputs
    \/ InCall /\ MergePrimary
    \/ InCall /\ MergeFallback
    \/ InCall /\ MergeFinish
    \/ InCall /\ ExtractVerify
    \/ InCall /\ ExtractRun
    \/ InCall /\ \E t \in DOMAIN calls : TranscribeStart(t)
    \/ InCall /\ \E t \in DOMAIN calls : LoadModel(t)
    \/ InCall /\ \E t \in DOMAIN calls : SetModelSize(t)
    \/ InCall /\ \E t \in DOMAIN calls : Preprocess(t)
    \/ InCall /\ \E t \in DOMAIN calls : Transcribe(t)
    \/ InCall /\ \E t \in DOMAIN calls : WriteOutput(t)
    \/ InCall /\ \E t \in DOMAIN calls : Cleanup(t)

SpecWorker == InitWorker /\ [][NextWorker]_vars

\* ================================================================= claims
\* observations of a state used by the properties below
IndexesOf(kind) == {k \in 1..Len(trace) : trace[k].kind = kind}

IsProgress(e) == e.kind = "progress"

\* the values passed to progress_callback so far, in order
ProgressValues ==
    LET ps == SelectSeq(trace, IsProgress) IN [k \in 1..Len(ps) |-> ps[k].a]

\* the call runs, or has run, _split_audio_with_pydub
InFallback == op = "split_audio" /\ ffmpeg_error # "" /\ pc # "a_except"

Segmenting == op \in {"split_video", "split_audio"}

\* a plan of the running strategy has been built
PlanBuilt == Segmenting /\ split_points # <<>>

\* the interval list of the running strategy
PlannedIntervals ==
    IF op = "split_video" THEN intervals ELSE AudioIntervals(split_points)

\* the duration D in the unit of the running strategy
DurationOfRun == IF InFallback THEN LenMs(file_duration) ELSE file_duration

\* what the parser of the running strategy makes of a raw point
ParsedPoint(parts) ==
    IF op = "split_video" THEN VideoTimeStrToSeconds(parts)
    ELSE IF InFallback THEN TimeStrToMilliseconds(parts)
    ELSE AudioTimeStrToSeconds(parts)

IsPartition(iv, total) ==
    /\ Len(iv) >= 1
    /\ iv[1][1] = 0
    /\ iv[Len(iv)][2] = total
    /\ \A k \in 1..(Len(iv) - 1) : iv[k][2] = iv[k + 1][1]

\* C1: whenever a segmenter (video, audio stream copy, audio fallback) has
\* built its plan, its interval list partitions [0, D]: the first interval
\* starts at 0, the last ends at D, each end is the next interval's start.
C1_IntervalsPartition ==
    PlanBuilt => IsPartition(PlannedIntervals, DurationOfRun)

\* C1 witness: the fallback path planned three intervals from points given
\* in descending order.
C1_Witness ==
    /\ InFallback
    /\ pc = "p_loop"
    /\ Len(split_points) = 4
    /\ Len(time_points) = 2
    /\ TimeStrToMilliseconds(time_points[1]) > TimeStrToMilliseconds(time_points[2])

\* C2: the split plan of each segmenter is strictly increasing: no two
\* adjacent plan entries are equal, every interior point appears once.
C2_PlanStrictlyIncreasing ==
    PlanBuilt => \A k \in 1..(Len(split_points) - 1) :
                     split_points[k] < split_points[k + 1]

\* C3: the interior of the plan holds only parsed points strictly between
\* 0 and the duration; a point <= 0 or >= the duration is never interior.
C3_InteriorStrictlyInside ==
    PlanBuilt => \A k \in 2..(Len(split_points) - 1) :
                     /\ 0 < split_points[k]
                     /\ split_points[k] < DurationOfRun
                     /\ \E j \in 1..Len(time_points) :
                          ParsedPoint(time_points[j]) = split_points[k]

\* no raw point parses to a value strictly between 0 and the duration
NoValidPoint ==
    \A j \in 1..Len(time_points) :
        LET s == IF op = "split_video" THEN VideoTimeStrToSeconds(time_points[j])
                 ELSE AudioTimeStrToSeconds(time_points[j])
        IN ~(0 < s /\ s < file_duration)

DurationProbed == \E k \in IndexesOf("ffprobe") : trace[k].rc = "ok"

\* C4: with no valid split point the segmenter never invokes the transcoder
\* for a segment, never returns success, and once the duration is known it
\* returns the failure "no valid split points".
C4_NoValidPointsIsFailure ==
    (Segmenting /\ NoValidPoint) =>
        /\ IndexesOf("ffmpeg") = {}
        /\ result.kind # "success"
        /\ (pc = "done" /\ DurationProbed) => result = Failure("no_valid_points")

\* C5: the k-th file of a successful segmentation is part k: 1-based,
\* consecutive, without gaps, in the order of the intervals written.
C5_PartNumbersConsecutive ==
    (Segmenting /\ result.kind = "success") =>
        \A k \in 1..Len(result.files) : result.files[k] = k

\* C6: no public operation ends by raising: every path returns a result
\* dictionary.
C6_NoOperationRaises == result.kind # "raised"

\* C7: the tool verification is the first thing every segmentation, remux
\* and extraction operation does, and when it fails the operation has
\* returned the tool-unavailable failure without doing anything else.
C7_VerificationComesFirst ==
    trace # <<>> =>
        /\ trace[1].kind = "test_ffmpeg_config"
        /\ trace[1].rc # "ok" =>
               /\ Len(trace) = 1
               /\ pc = "done"
               /\ result = Failure("ffmpeg_config")

\* C8: in split_video, a transcoder invocation that exits non-zero is the
\* last thing the run does: the run has returned a failure without any file
\* list, and every file written for an earlier segment is still on disk.
C8_VideoSegmentFailureAborts ==
    \A k \in IndexesOf("ffmpeg") :
        (op = "split_video" /\ trace[k].rc = "nonzero") =>
            /\ k = Len(trace)
            /\ pc = "done"
            /\ result.kind = "failure"
            /\ result.files = <<>>
            /\ \A f \in Elems(output_files) :
                   f < trace[k].out /\ File(f, "ffmpeg") \in disk

\* C8 witness: the third segment failed after two segments were written.
C8_Witness ==
    /\ op = "split_video"
    /\ pc = "done"
    /\ Len(output_files) = 2
    /\ trace[Len(trace)].kind = "ffmpeg"
    /\ trace[Len(trace)].rc = "nonzero"

StreamCopyFailed == \E k \in IndexesOf("ffmpeg") : trace[k].rc # "ok"

IsExport(e) == e.kind = "export"

\* C9: a successful split_audio never mixes the two paths, and after a failed
\* stream copy the fallback ran once, over its whole plan from segment 1:
\* every returned file was exported by the fallback.
C9_FallbackIsWholeOperation ==
    (op = "split_audio" /\ result.kind = "success") =>
        /\ \A f \in Elems(result.files) :
               File(f, IF InFallback THEN "pydub" ELSE "ffmpeg") \in disk
        /\ StreamCopyFailed =>
               LET ex == SelectSeq(trace, IsExport)
               IN /\ InFallback
                  /\ Cardinality(IndexesOf("from_file")) = 1
                  /\ Len(ex) = Len(split_points) - 1
                  /\ \A j \in 1..Len(ex) : ex[j].out = j /\ ex[j].rc = "ok"
                  /\ result.files = [j \in 1..Len(ex) |-> j]

\* C9 witness: stream copy wrote part 1 and failed on part 2; the fallback
\* then returned three files.
C9_Witness ==
    /\ op = "split_audio"
    /\ result.kind = "success"
    /\ Len(result.files) = 3
    /\ \E k \in IndexesOf("ffmpeg") : trace[k].rc = "nonzero" /\ trace[k].out = 2

\* C10: the values passed to the progress callback never decrease within
\* one segmentation run.
C10_ProgressNonDecreasing ==
    Segmenting =>
        \A j \in 1..(Len(ProgressValues) - 1) :
            ProgressValues[j] <= ProgressValues[j + 1]

\* the values the running operation passed to its progress callback
RunProgress == IF op \in SpeechOperations THEN calls[1].progress ELSE ProgressValues

\* the result dictionary of the running operation, once there is one
RunResultKind ==
    IF op \in SpeechOperations THEN calls[1].result.kind ELSE result.kind

RunReturned == IF op \in SpeechOperations THEN calls[1].pc = "t_done" ELSE pc = "done"

\* C11: every value an operation passes to its progress callback is an
\* integer in 0..100; 100 is reported exactly when the operation returns
\* success, and then it is the last value reported (nothing follows it).
C11_ProgressEndsAt100 ==
    LET ps == RunProgress
    IN /\ \A k \in 1..Len(ps) : ps[k] \in 0..100
       /\ \A k \in 1..Len(ps) : ps[k] = 100 => k = Len(ps)
       /\ (\E k \in 1..Len(ps) : ps[k] = 100) => RunResultKind = "success"
       /\ (has_callback /\ RunResultKind = "success") =>
              (ps # <<>> /\ ps[Len(ps)] = 100)
       /\ (RunReturned /\ RunResultKind # "success") =>
              \A k \in 1..Len(ps) : ps[k] < 100

\* C11 witness: a subtitle transcription that loaded its model returned
\* success after the reports 10, 20, 40, 50, 70, 100.
C11_Witness ==
    /\ op = "speech_to_subtitle"
    /\ calls[1].pc = "t_done"
    /\ calls[1].result.kind = "success"
    /\ calls[1].progress = <<10, 20, 40, 50, 70, 100>>

PrimaryRaised == \E k \in IndexesOf("moviepy") : trace[k].rc # "ok"

PrimaryCompleted == \E k \in IndexesOf("moviepy") : trace[k].rc = "ok"

\* C12: merge_video_audio runs the transcoder fallback only after the
\* MoviePy path raised, and has run it (once) whenever the path raised and
\* the operation returned; it returns success exactly when the MoviePy path
\* completed or the fallback exited 0; when both failed the returned failure
\* carries the error of the fallback.
C12_MergeFallbackIffPrimaryRaised ==
    op = "merge_video_audio" =>
        /\ IndexesOf("ffmpeg") # {} => PrimaryRaised
        /\ Cardinality(IndexesOf("ffmpeg")) <= 1
        /\ (pc = "done" /\ PrimaryRaised) => IndexesOf("ffmpeg") # {}
        /\ pc = "done" =>
               (result.kind = "success" <=>
                    \/ PrimaryCompleted
                    \/ \E k \in IndexesOf("ffmpeg") : trace[k].rc = "ok")
        /\ \A k \in IndexesOf("ffmpeg") :
               (pc = "done" /\ trace[k].rc # "ok") =>
                   /\ result.kind = "failure"
                   /\ trace[k].rc = "nonzero" =>
                          result.error = "merge_failed:ffmpeg_nonzero"
                   /\ trace[k].rc = "timeout" =>
                          result.error = "merge_failed:ffmpeg_timeout"
                   /\ trace[k].rc = "error" =>
                          result.error = "merge_failed:ffmpeg_error"

\* C12 witness: write_videofile raised, the fallback transcoder exited
\* non-zero, the operation returned the failure.
C12_Witness ==
    /\ op = "merge_video_audio"
    /\ pc = "done"
    /\ \E k \in IndexesOf("moviepy") : trace[k].rc = "write_error"
    /\ \E k \in IndexesOf("ffmpeg") : trace[k].rc = "nonzero"
    /\ result.kind = "failure"

\* errors returned for an expired 300 s timeout / for a non-zero exit
TimeoutErrors == {"merge_failed:ffmpeg_timeout", "replace_timeout"}

ExitErrors == {"merge_failed:ffmpeg_nonzero", "replace_failed:stderr"}

\* C13: in the merge fallback and in replace_audio an expired timeout of the
\* transcoder gives a failure with the timeout error, a non-zero exit gives
\* a failure with the exit error, the two errors differ, and a timeout is
\* never a success.
C13_TimeoutIsDistinctFailure ==
    /\ TimeoutErrors \cap ExitErrors = {}
    /\ \A k \in IndexesOf("ffmpeg") :
           (op \in {"merge_video_audio", "replace_audio"} /\ pc = "done") =>
               /\ trace[k].rc = "timeout" =>
                      /\ result.kind = "failure"
                      /\ result.error \in TimeoutErrors
               /\ trace[k].rc = "nonzero" =>
                      /\ result.kind = "failure"
                      /\ result.error \in ExitErrors

\* C13 witness: replace_audio returned after its transcoder timed out.
C13_Witness ==
    /\ op = "replace_audio"
    /\ pc = "done"
    /\ \E k \in IndexesOf("ffmpeg") : trace[k].rc = "timeout"

IsOkLoad(e) == e.rc = "ok"

\* the size of the last model of a list of loads, NoModel for none
LastSize(loads) == IF loads = <<>> THEN NoModel ELSE loads[Len(loads)].size

\* the model constructions the call with this id performed
LoadsBy(id) == {k \in 1..Len(model_loads) : model_loads[k].by = id}

\* the size of the model the transcriber held when the call with this id began
CachedBefore(id) ==
    LET Earlier(e) == e.rc = "ok" /\ e.by < id
    IN LastSize(SelectSeq(model_loads, Earlier))

\* C14: over any sequence of calls on one transcriber: the model held is the
\* one of the last successful load (a failed load changes nothing); between
\* calls the size key equals the size of the model held; a call requesting
\* the cached size loads nothing; a call requesting another size (or the
\* first call) loads at most once, and when it went on to inference it
\* loaded exactly once, successfully, the size it requested.
C14_ModelCacheFollowsRequests ==
    LET c == calls[1]
    IN /\ whisper_model[1] = LastSize(SelectSeq(model_loads, IsOkLoad))
       /\ c.pc \in {"t_start", "t_done"} => current_model_size[1] = whisper_model[1]
       /\ c.pc = "t_done" =>
              IF CachedBefore(c.id) = c.model_size
              THEN LoadsBy(c.id) = {}
              ELSE /\ Cardinality(LoadsBy(c.id)) <= 1
                   /\ c.model_used # NoModel =>
                          /\ Cardinality(LoadsBy(c.id)) = 1
                          /\ \A k \in LoadsBy(c.id) :
                                 /\ model_loads[k].rc = "ok"
                                 /\ model_loads[k].size = c.model_size
                   /\ (\A k \in LoadsBy(c.id) : model_loads[k].rc # "ok") =>
                          /\ whisper_model[1] = CachedBefore(c.id)
                          /\ current_model_size[1] = CachedBefore(c.id)
       /\ c.model_used # NoModel => c.model_used = c.model_size

\* C14 witness: the second call replaced the model of the first, the third
\* call requested the size of the second and returned without loading.
C14_Witness ==
    /\ calls[1].id = 3
    /\ calls[1].pc = "t_done"
    /\ calls[1].result.kind = "success"
    /\ Len(model_loads) = 2
    /\ model_loads[1].rc = "ok" /\ model_loads[1].by = 1
    /\ model_loads[2].rc = "ok" /\ model_loads[2].by = 2
    /\ model_loads[1].size # model_loads[2].size
    /\ calls[1].model_size = model_loads[2].size

\* C15: of two transcription tasks run one after the other in one process
\* with the same model size, only the first loads the speech model: when
\* the first task loaded it, the second constructs no model.
C15_ModelLoadedOncePerProcess ==
    (/\ calls # <<>>
     /\ calls[1].id = 2
     /\ calls[1].pc \in {"t_done", "t_emitted"}
     /\ \E k \in LoadsBy(1) : /\ model_loads[k].rc = "ok"
                              /\ model_loads[k].size = calls[1].model_size)
        => LoadsBy(2) = {}

\* C16: two concurrent calls on one transcriber that request different
\* sizes each run inference with a model of the size they requested, and
\* at that moment the size key equals the size of the model held.
C16_ConcurrentCallsUseOwnModel ==
    \A t \in DOMAIN calls :
        (/\ Len(calls) = 2
         /\ calls[1].model_size # calls[2].model_size
         /\ calls[t].model_used # NoModel)
            => /\ calls[t].model_used = calls[t].model_size
               /\ calls[t].key_used = calls[t].model_used

\* C17: when a transcription call has returned, with success or failure, no
\* temp file that its preprocessing step created is left on disk.
C17_TempFileRemoved ==
    \A t \in DOMAIN calls :
        calls[t].pc = "t_done" =>
            ~\E f \in stt_files : f.path = TempPath /\ f.by = calls[t].id

\* the extension that belongs to a subtitle format
ExtensionOf(fmt) ==
    CASE fmt = "srt" -> ".srt"
      [] fmt = "vtt" -> ".vtt"
      [] fmt = "ass" -> ".ass"
      [] OTHER -> ""

\* C18: a successful speech_to_subtitle call whose format the generator
\* accepted (srt, vtt, ass in any letter case) wrote the subtitle to, and
\* returns as output_path, the caller's path with the extension replaced by
\* the one of the format.
C18_SubtitleExtensionForced ==
    \A t \in DOMAIN calls :
        LET c == calls[t]
            wanted == Path(c.output_path.base, ExtensionOf(Lower(c.subtitle_format)))
        IN (/\ c.output_format = "subtitle"
            /\ c.pc = "t_done"
            /\ c.result.kind = "success"
            /\ Lower(c.subtitle_format) \in {"srt", "vtt", "ass"}
            /\ c.result.content # "")
               => /\ c.result.path = wanted
                  /\ SttFile(wanted, c.result.content, c.id) \in stt_files

SuccessfulRows == {k \in 1..Len(results) : results[k].result.kind = "success"}

\* C19: a batch operation runs every job whatever happened to the earlier
\* ones: rows are appended one per job in input order, each the result of
\* that job's call; the returned dictionary has a row for every job,
\* successful + failed = total = the number of jobs, and its success flag
\* is true exactly when failed = 0.
C19_BatchRunsEveryJob ==
    /\ Len(results) = job
    /\ \A k \in 1..Len(results) :
           /\ results[k].video_path = k
           /\ results[k].result.kind \in {"success", "failure"}
    /\ pc = "b_done" =>
           /\ job = Len(jobs)
           /\ batch_result.rows = results
           /\ batch_result.total = Len(jobs)
           /\ batch_result.successful = Cardinality(SuccessfulRows)
           /\ batch_result.successful + batch_result.failed = batch_result.total
           /\ batch_result.kind = "success" <=> batch_result.failed = 0
           /\ batch_result.kind \in {"success", "failure"}

\* C19 witness: of two jobs the first failed and the second succeeded.
C19_Witness ==
    /\ pc = "b_done"
    /\ Len(jobs) = 2
    /\ results[1].result.kind = "failure"
    /\ results[2].result.kind = "success"
    /\ batch_result.kind = "failure"

\* h*3600 + m*60 + s of a string of 1, 2 or 3 numeric fields
FieldsToSeconds(parts) ==
    CASE Len(parts) = 1 -> parts[1].v
      [] Len(parts) = 2 -> parts[1].v * 60 + parts[2].v
      [] Len(parts) = 3 -> parts[1].v * 3600 + parts[2].v * 60 + parts[3].v

\* C20: for every split point of 1, 2 or 3 numeric fields that a segmenter
\* planned with, the video parser and the audio parser both return
\* h*3600 + m*60 + s, hence the same number of seconds.
C20_ParsersAgree ==
    PlanBuilt =>
        \A j \in 1..Len(time_points) :
            LET parts == time_points[j]
            IN (AllNumeric(parts) /\ Len(parts) \in 1..3) =>
                   /\ VideoTimeStrToSeconds(parts) = FieldsToSeconds(parts)
                   /\ AudioTimeStrToSeconds(parts) = FieldsToSeconds(parts)

\* ---- C21..C30
\* the unit of the value a formatter takes: ticks per second, or milliseconds
FormatUnit == IF op = "_seconds_to_time_str" THEN TicksPerSec ELSE 1000

WholeField(f) == f.ok /\ f.v % TicksPerSec = 0 /\ f.v \div TicksPerSec \in 0..59

\* C21: for a valid time string, parsing, formatting with the HH:MM:SS
\* formatter and parsing again gives the parsed time truncated to whole
\* seconds, and the minutes and seconds fields of the formatted string are
\* whole numbers in 0..59
C21_FormatTruncatesToSeconds ==
    (op \in {"_seconds_to_time_str", "_milliseconds_to_time_str"} /\ pc = "f_done")
        => /\ round_trip.again = (round_trip.seconds \div FormatUnit) * FormatUnit
           /\ Len(round_trip.time_str) = 3
           /\ WholeField(round_trip.time_str[2])
           /\ WholeField(round_trip.time_str[3])

\* transcoder invocations of a segmentation run started after cancel()
SegmentsAfterCancel ==
    {k \in IndexesOf("ffmpeg") : op \in Segmenters /\ k > worker.cancel_at}

\* C22: once cancel() has been called on the worker running a segmentation,
\* no transcoder invocation is started after the one that was in flight: at
\* most one invocation of the run follows the cancellation
C22_NoSegmentAfterCancel ==
    worker.is_cancelled => Cardinality(SegmentsAfterCancel) <= 1

DirProbes(rcs) == {k \in IndexesOf("dir_probe") : trace[k].rc \in rcs}

\* C23: in a segmentation run every transcoder invocation comes after a
\* successful create-and-probe of the output directory; a run whose
\* directory could not be created or written returns a failure and invokes
\* no transcoder; and no probe file is left when the run has ended
C23_OutputDirProbedFirst ==
    op \in Segmenters =>
        /\ \A k \in IndexesOf("ffmpeg") : \E j \in DirProbes({"ok"}) : j < k
        /\ (pc = "done" /\ DirProbes({"makedirs_error", "write_error"}) # {})
              => (result.kind = "failure" /\ IndexesOf("ffmpeg") = {})
        /\ pc = "done" => File(0, "probe") \notin disk

\* positions of the trace where a segment was written and its progress
\* value reported right after
SegmentReports ==
    {k \in 1..(Len(trace) - 1) :
        /\ trace[k].kind \in {"ffmpeg", "export"}
        /\ trace[k].rc = "ok"
        /\ trace[k + 1].kind = "progress"}

\* C24: in a segmentation run with n intervals the value reported after
\* the k-th segment is 30 + floor(70 * k / n), which is 100 after the last
C24_SegmentProgressShares ==
    op \in Segmenters =>
        \A k \in SegmentReports :
            LET n == Len(split_points) - 1
            IN /\ trace[k + 1].a = 30 + (70 * trace[k].out) \div n
               /\ trace[k].out = n => trace[k + 1].a = 100

\* the position of an option in a command, 0 when it is absent
Position(cmd, option) ==
    IF \E k \in 1..Len(cmd) : cmd[k] = option
    THEN CHOOSE k \in 1..Len(cmd) : cmd[k] = option
    ELSE 0

\* transcoder invocations of a segmentation run
Invocations == {k \in IndexesOf("ffmpeg") : op \in Segmenters}

\* C25: every transcoder invocation of a segmentation run seeks to the start
\* of its interval with the seek option before the input option and passes
\* the length end - start; the audio invocation uses stream copy and the
\* negative-timestamp correction; and a run that succeeds on its transcoder
\* path has invoked the transcoder exactly once for every planned interval
C25_SeekBeforeInputWithDuration ==
    /\ \A k \in Invocations :
          LET e == trace[k]
          IN /\ e.a = split_points[e.out]
             /\ e.b = split_points[e.out + 1] - split_points[e.out]
             /\ Position(e.cmd, "-ss") > 0
             /\ Position(e.cmd, "-ss") < Position(e.cmd, "-i")
             /\ Position(e.cmd, "-t") + Position(e.cmd, "-to") > 0
             /\ op = "split_audio"
                   => /\ Position(e.cmd, "-c copy") > 0
                      /\ Position(e.cmd, "-avoid_negative_ts make_zero") > 0
    /\ (op \in Segmenters /\ result.kind = "success" /\ ffmpeg_error = "")
          => \A n \in 1..(Len(split_points) - 1) :
                Cardinality({k \in Invocations : trace[k].out = n}) = 1

\* C26: split_audio runs the managed-library path only after a stream-copy
\* transcoder invocation has failed; a failure found before any invocation
\* is returned as a failure result, with nothing loaded through the library
C26_FallbackOnlyAfterTranscoderFailure ==
    op = "split_audio" =>
        /\ (InFallback \/ IndexesOf("from_file") # {}) => StreamCopyFailed
        /\ (pc = "done" /\ ffmpeg_error # "" /\ ~StreamCopyFailed)
              => (result.kind = "failure" /\ IndexesOf("from_file") = {})

\* the managed-library path has loaded the file and planned, or rejected
PydubPlanned ==
    /\ InFallback
    /\ \E k \in IndexesOf("from_file") : trace[k].rc = "ok"
    /\ pc \in {"p_dir", "p_loop", "done"}

\* C27: for the same file, raw points and duration the stream-copy path and
\* the managed-library path build the same plan: both reject the input or
\* both accept it, with the same number of segments (hence the same file
\* names) and bounds that agree to the millisecond
C27_BothPathsPlanAlike ==
    PydubPlanned =>
        LET time_seconds == AudioTimeSeconds(time_points, file_duration)
            by_seconds == AudioSplitPoints(time_seconds, file_duration)
        IN /\ (time_seconds = <<>>) <=> (split_points = <<>>)
           /\ split_points # <<>>
                 => /\ Len(split_points) = Len(by_seconds)
                    /\ \A k \in 1..Len(split_points) :
                          split_points[k] = IntMs(by_seconds[k])

\* the terminal signals emitted so far, and the progress signals
TerminalSignals ==
    {k \in 1..Len(worker.emitted) :
        worker.emitted[k].name \in {"finished_successfully", "error_occurred"}}

ProgressSignals ==
    {k \in 1..Len(worker.emitted) : worker.emitted[k].name = "progress_updated"}

WellFormed(s) == Len(s) \in 1..3 /\ AllNumeric(s)

InvalidTimes ==
    {validation.invalid_points[k].time : k \in 1..Len(validation.invalid_points)}

\* C29: validate_time_points puts every input string in exactly one of
\* valid_points and invalid_points, reports valid exactly when
\* invalid_points is empty, and lists as invalid every string that is not a
\* well-formed time and every string whose value is outside
\* [0, video_duration]
C29_ValidationRejectsMalformed ==
    (op = "validate_time_points" /\ pc = "p_done") =>
        /\ Len(validation.valid_points) + Len(validation.invalid_points)
              = Len(time_points)
        /\ \A s \in Elems(time_points) :
              (s \in Elems(validation.valid_points)) # (s \in InvalidTimes)
        /\ validation.valid <=> (validation.invalid_points = <<>>)
        /\ \A s \in Elems(time_points) :
              (~WellFormed(s)
               \/ VideoTimeStrToSeconds(s) < 0
               \/ VideoTimeStrToSeconds(s) > file_duration) => s \in InvalidTimes

\* C30: a speech_to_subtitle call whose subtitle_format is none of srt, vtt
\* and ass (in any letter case) returns a failure and writes no output file
C30_UnsupportedFormatFails ==
    \A t \in DOMAIN calls :
        LET c == calls[t]
        IN (/\ op = "speech_to_subtitle"
            /\ c.pc = "t_done"
            /\ Lower(c.subtitle_format) \notin {"srt", "vtt", "ass"})
               => /\ c.result.kind = "failure"
                  /\ \A f \in stt_files : f.path.base # c.output_path.base

====
